---- MODULE Spec2Model ----
(***************************************************************************)
(* A model of the provider router of ccs: the health monitor               *)
(* (src/router/providers/health.ts), the provider resolver                 *)
(* (src/router/providers/registry), the Anthropic adapter and the router   *)
(* configuration editor.  JavaScript runs each synchronous                 *)
(* stretch of code to completion; an `await` is a suspension point, so an  *)
(* async function is one action per stretch between awaits.                *)
(***************************************************************************)
EXTENDS Integers, Sequences, FiniteSets, TLC

VARIABLES
    now,                    \* Date.now(), in milliseconds
    healthCache,            \* Map<string, ProviderHealthResult>: a function on the cached names
    cliproxyPortHealthy,    \* boolean | null
    cliproxyPortCheckedAt,  \* Date | null
    tasks,                  \* the suspended checkProviderHealth calls
    call,                   \* the checkAllProvidersHealth call in flight, if any
    nChecks,                \* number of checkProviderHealth calls made so far
    providers,              \* the resolved providers this process checks
    ret,                    \* what the operation that just returned gave its caller
    trace,                  \* history: the port probe each result and status derives from
    unifiedConfig,          \* what loadUnifiedConfig() returns
    routerConfig,           \* what loadRouterConfig() returns
    settingsFiles,          \* the settings file of each profile, on disk
    processEnv,             \* process.env
    rret,                   \* what the resolver call that just returned gave
    areq,                   \* the request object the adapter's caller holds
    aprov,                  \* the resolved provider the adapter is given
    aret,                   \* what the adapter call that just returned gave
    configFile,             \* the configuration file (config.yaml) on disk
    eret,                   \* what the editor call that just returned gave
    edits,                  \* the editor calls between their read and their write
    authIn,                 \* the proxy options and the provider's need of OAuth
    authOut,                \* what the local-auth decision just computed gave
    stime,                  \* the shutdown handler's clock, in milliseconds
    signalledAt,            \* when each delivered SIGINT / SIGTERM arrived
    clients,                \* wss.clients: the state of each WebSocket client
    httpServer,             \* the HTTP server: listening, closing or closed
    timers,                 \* the deadlines of the pending setTimeout calls
    exitCode,               \* the code process.exit was called with, if it was
    aliasFile,              \* model-aliases.json on disk
    defaultAliases,         \* the DEFAULT_MODEL_ALIASES object of the module
    mret                    \* what the alias call that just returned gave

\* the health monitor's state
hvars == <<now, healthCache, cliproxyPortHealthy, cliproxyPortCheckedAt,
           tasks, call, nChecks, providers, ret, trace>>

\* the resolver's state
rvars == <<unifiedConfig, routerConfig, settingsFiles, processEnv, rret>>

\* the adapter's inputs and result
avars == <<areq, aprov, aret>>

\* the configuration editor's state
evars == <<configFile, eret, edits>>

\* the local-auth decision's inputs and result
lvars == <<authIn, authOut>>

\* the shutdown handler's state
svars == <<stime, signalledAt, clients, httpServer, timers, exitCode>>

\* the model-alias configuration's state
mvars == <<aliasFile, defaultAliases, mret>>

\* the other components' state
ovars == <<lvars, svars, mvars>>

vars == <<hvars, rvars, avars, evars, ovars>>

----------------------------------------------------------------------------
(* JavaScript's null / undefined, and a present value.                      *)
None == <<>>
Some(x) == <<x>>
Val(o) == o[1]

----------------------------------------------------------------------------
(* Bounds of the model.                                                     *)
MaxInstants == 2    \* the clock takes Instant(0) .. Instant(MaxInstants)
MaxChecks == 2      \* checkProviderHealth calls in one behaviour
MaxEdits == 2       \* editor calls a caller can have started at once
MaxSignals == 2     \* SIGINT / SIGTERM deliveries in one behaviour
MaxClients == 2     \* WebSocket clients
MaxQuietSteps == 2  \* steps of the clock before the first signal

\* health.ts line 9
CACHE_TTL == 30 * 1000
\* health.ts line 106: AbortSignal.timeout(5000)
FETCH_TIMEOUT == 5000

\* The instants the clock takes: 0, then every multiple of the TTL and the
\* millisecond after it (0, 30000, 30001, 60000, 60001, ...), so that ages
\* below CACHE_TTL, of exactly CACHE_TTL and above it all occur.
Instant(i) ==
    IF i = 0 THEN 0 ELSE ((i + 1) \div 2) * CACHE_TTL + ((i + 1) % 2)

TimePoints == { Instant(i) : i \in 0..MaxInstants }

\* The resolved providers that are checked: two multiplexer (cliproxy)
\* providers, which share the port status, or one of them and a settings
\* profile.
ProviderSets ==
    { { [name |-> "agy", type |-> "cliproxy"],
        [name |-> "gemini", type |-> "cliproxy"] },
      { [name |-> "agy", type |-> "cliproxy"],
        [name |-> "glm", type |-> "settings"] } }

ProviderNames == { p.name : p \in providers }

\* every call made may be suspended at the same time
TaskIds == 1..MaxChecks

\* invalidateHealthCache(providerName?): no argument, a provider's name, or
\* the empty string.
InvalidateArgs == {None} \cup { Some(n) : n \in ProviderNames \cup {""} }

\* What getPortProcess(CLIPROXY_DEFAULT_PORT) finds on the port: nothing
\* (null), some other process, or the CLIProxy process.
PortProbeOutcomes == {"none", "other", "cliproxy"}

\* What getAuthStatus(name).authenticated is.
AuthStatuses == BOOLEAN

\* What fetch() does: a response, or a rejection with an Error (a network
\* failure, the 5 s timeout).
FetchOutcomes ==
    { [kind |-> "response", status |-> 200, statusText |-> "OK"],
      [kind |-> "response", status |-> 500, statusText |-> "Internal Server Error"],
      [kind |-> "error", message |-> "fetch failed"],
      [kind |-> "timeout", message |-> "The operation was aborted due to timeout"] }

----------------------------------------------------------------------------
(* Strings.                                                                 *)
Contains(s, sub) ==
    \E i \in 1..(Len(s) - Len(sub) + 1) : SubSeq(s, i, i + Len(sub) - 1) = sub

\* JavaScript truthiness of an optional string: undefined and "" are falsy.
TruthyString(o) == o # None /\ Val(o) # ""

----------------------------------------------------------------------------
(* The health cache.                                                        *)

\* healthCache.get(name)
CacheGet(name) ==
    IF name \in DOMAIN healthCache THEN Some(healthCache[name]) ELSE None

\* healthCache.set(name, result) on cache c
CacheSet(c, name, result) ==
    [ n \in DOMAIN c \cup {name} |-> IF n = name THEN result ELSE c[n] ]

\* healthCache.delete(name) on cache c
CacheDelete(c, name) == [ n \in DOMAIN c \ {name} |-> c[n] ]

\* an empty Map
EmptyCache == [ n \in {} |-> None ]

\* CacheFresh with the comparison off by one: a record exactly CACHE_TTL old
\* still counts as fresh
CacheFreshInclusive(cached) ==
    cached # None /\ now - Val(cached).checkedAt <= CACHE_TTL

\* line 24: cached && Date.now() - cached.checkedAt.getTime() < CACHE_TTL
CacheFresh(cached) ==
    cached # None /\ now - Val(cached).checkedAt < CACHE_TTL

\* lines 48-52: the condition under which the port is probed again
PortStale ==
    \/ cliproxyPortHealthy = None
    \/ cliproxyPortCheckedAt = None
    \/ now - Val(cliproxyPortCheckedAt) > CACHE_TTL

----------------------------------------------------------------------------
(* The records the checks build.                                            *)

\* CLIProxyResult with the two tests in the other order: a provider that is
\* not authenticated is reported so even when the port check fails
CLIProxyResultAuthFirst(name, latency, portHealthy, authenticated) ==
    IF ~authenticated THEN
        [provider |-> name, healthy |-> FALSE, latency |-> latency,
         error |-> "Not authenticated", checkedAt |-> now]
    ELSE IF ~portHealthy THEN
        [provider |-> name, healthy |-> FALSE, latency |-> latency,
         error |-> "CLIProxy not running", checkedAt |-> now]
    ELSE
        [provider |-> name, healthy |-> TRUE, latency |-> latency,
         checkedAt |-> now]

\* lines 63-88: the result of checkCLIProxyProviderHealth, from the shared
\* port status as it is now and the auth status
CLIProxyResult(name, latency, portHealthy, authenticated) ==
    IF ~portHealthy THEN
        [provider |-> name, healthy |-> FALSE, latency |-> latency,
         error |-> "CLIProxy not running", checkedAt |-> now]
    ELSE IF ~authenticated THEN
        [provider |-> name, healthy |-> FALSE, latency |-> latency,
         error |-> "Not authenticated", checkedAt |-> now]
    ELSE
        [provider |-> name, healthy |-> TRUE, latency |-> latency,
         checkedAt |-> now]

\* ResponseOk without its upper bound: a 500 counts as a success
ResponseOkNoUpperBound(status) == status >= 200

\* response.ok
ResponseOk(status) == status \in 200..299

\* line 124
HttpErrorString(status, statusText) ==
    "HTTP " \o ToString(status) \o ": " \o statusText

\* line 132: error instanceof Error ? error.message : 'Unknown error'
CaughtErrorString(outcome) ==
    IF outcome.kind \in {"error", "timeout"} THEN outcome.message
    ELSE "Unknown error"

\* ApiResult with a catch block that leaves the error out of the record
ApiResultErrorDropped(name, latency, outcome) ==
    IF outcome.kind = "response" THEN
        IF ResponseOk(outcome.status) THEN
            [provider |-> name, healthy |-> TRUE, latency |-> latency,
             checkedAt |-> now]
        ELSE
            [provider |-> name, healthy |-> FALSE, latency |-> latency,
             error |-> HttpErrorString(outcome.status, outcome.statusText),
             checkedAt |-> now]
    ELSE
        [provider |-> name, healthy |-> FALSE, latency |-> latency,
         checkedAt |-> now]

\* lines 109-135: the result of checkApiProviderHealth
ApiResult(name, latency, outcome) ==
    IF outcome.kind = "response" THEN
        IF ResponseOk(outcome.status) THEN
            [provider |-> name, healthy |-> TRUE, latency |-> latency,
             checkedAt |-> now]
        ELSE
            [provider |-> name, healthy |-> FALSE, latency |-> latency,
             error |-> HttpErrorString(outcome.status, outcome.statusText),
             checkedAt |-> now]
    ELSE
        [provider |-> name, healthy |-> FALSE, latency |-> latency,
         error |-> CaughtErrorString(outcome), checkedAt |-> now]

----------------------------------------------------------------------------
(* The provider resolver (src/router/providers/registry).                   *)

\* line 8
CLIPROXY_PROVIDER_LIST == <<"agy", "gemini", "codex", "qwen", "iflow", "kiro", "ghcp">>

\* line 11
CLIPROXY_BASE_URL == "http://127.0.0.1:8317"

\* line 81: the base URL used when the settings file names none
DEFAULT_ANTHROPIC_BASE_URL == "https://api.anthropic.com/v1"

\* Members every plain JavaScript object inherits from Object.prototype:
\* obj[key] finds them although they are no keys of obj.
ObjectPrototypeKeys == {"constructor", "toString", "valueOf", "hasOwnProperty", "__proto__"}

\* the value obj[key] finds for an inherited member: an object or function
\* (truthy) without any of the fields the resolver reads
Inherited(key) == [inherited |-> key]
IsInherited(v) == "inherited" \in DOMAIN v

\* obj?.[key], obj an optional plain object (lines 31, 65): undefined for
\* null/undefined obj, the own value, an inherited member, or undefined
PropertyGet(obj, key) ==
    IF obj = None THEN None
    ELSE IF key \in DOMAIN Val(obj) THEN Some(Val(obj)[key])
    ELSE IF key \in ObjectPrototypeKeys THEN Some(Inherited(key))
    ELSE None

\* value.field of a value PropertyGet found
Field(v, field) ==
    IF IsInherited(v) \/ field \notin DOMAIN v THEN None ELSE Some(v[field])

\* unifiedConfig?.profiles and config?.providers
Section(config, section) == IF config = None THEN None ELSE Val(config)[section]

\* the names with an entry in the profiles / providers map
ProfileKeys == IF Section(unifiedConfig, "profiles") = None THEN {}
               ELSE DOMAIN Val(Section(unifiedConfig, "profiles"))
ProviderKeys == IF Section(routerConfig, "providers") = None THEN {}
                ELSE DOMAIN Val(Section(routerConfig, "providers"))

\* lines 43-45: CLIPROXY_PROVIDER_LIST.includes(name)
isCLIProxyProvider(name) ==
    \E i \in 1..Len(CLIPROXY_PROVIDER_LIST) : CLIPROXY_PROVIDER_LIST[i] = name

\* resolveCLIProxyProvider without the version segment of the base URL
resolveCLIProxyProviderNoVersion(name) ==
    [name |-> name, type |-> "cliproxy", adapter |-> Some("anthropic"),
     baseUrl |-> Some(CLIPROXY_BASE_URL \o "/api/provider/" \o name),
     authToken |-> None, headers |-> None]

\* lines 50-57
resolveCLIProxyProvider(name) ==
    [name |-> name, type |-> "cliproxy", adapter |-> Some("anthropic"),
     baseUrl |-> Some(CLIPROXY_BASE_URL \o "/api/provider/" \o name \o "/v1"),
     authToken |-> None, headers |-> None]

\* a || b with its operands swapped: the default always wins
OrElseSwapped(a, b) == IF TruthyString(b) THEN b ELSE a

\* a || b on optional strings
OrElse(a, b) == IF TruthyString(a) THEN a ELSE b

\* the results of a function that may throw
Return(v) == [kind |-> "return", value |-> v]
Throw == [kind |-> "throw"]

\* What expandPath(undefined) does (utils/helpers): it throws a TypeError,
\* or returns a path that names no file.
ExpandUndefinedOutcomes == {"throws", "returns"}

\* lines 63-87; `xp` is what expandPath does when the settings path is undefined
resolveSettingsProfile(name, xp) ==
    LET profileConfig == PropertyGet(Section(unifiedConfig, "profiles"), name)
    IN  IF profileConfig = None THEN Return(None)
        ELSE IF Field(Val(profileConfig), "settings") = None
             THEN (IF xp = "throws" THEN Throw ELSE Return(None))
        ELSE LET file == settingsFiles[Val(Field(Val(profileConfig), "settings"))]
             IN  IF file.state = "missing" THEN Return(None)
                 ELSE IF file.state = "garbage" THEN Return(None)
                 ELSE IF file.state = "null" THEN Return(None)
                 ELSE LET env == IF file.env = None
                                 THEN [ANTHROPIC_BASE_URL |-> None,
                                       ANTHROPIC_AUTH_TOKEN |-> None]
                                 ELSE Val(file.env)
                      IN  Return(Some(
                            [name |-> name, type |-> "settings",
                             adapter |-> Some("anthropic"),
                             baseUrl |-> OrElse(env.ANTHROPIC_BASE_URL,
                                                Some(DEFAULT_ANTHROPIC_BASE_URL)),
                             authToken |-> env.ANTHROPIC_AUTH_TOKEN,
                             headers |-> None]))

\* process.env[key], key an optional string (undefined reads "undefined")
EnvGet(key) ==
    LET k == IF key = None THEN "undefined" ELSE Val(key)
    IN  IF k \in DOMAIN processEnv THEN Some(processEnv[k]) ELSE None

\* lines 92-103
resolveApiProvider(name, config) ==
    [name |-> name, type |-> "api",
     adapter |-> Field(config, "adapter"),
     baseUrl |-> Field(config, "base_url"),
     authToken |-> EnvGet(Field(config, "auth_env")),
     headers |-> Field(config, "headers")]

\* lines 17-38: what getProvider(name) returns, or that it throws
getProvider(name, xp) ==
    IF isCLIProxyProvider(name) THEN Return(Some(resolveCLIProxyProvider(name)))
    ELSE LET settingsProvider == resolveSettingsProfile(name, xp)
         IN  IF settingsProvider.kind = "throw" THEN Throw
             ELSE IF settingsProvider.value # None THEN settingsProvider
             ELSE LET apiConfig == PropertyGet(Section(routerConfig, "providers"), name)
                  IN  IF apiConfig # None
                      THEN Return(Some(resolveApiProvider(name, Val(apiConfig))))
                      ELSE Return(None)

\* Object.keys(...): the own keys of the two maps, in document order (the
\* documents of the model list their keys in this order)
KeyOrder == <<"agy", "glm">>
ProfileKeyList == SelectSeq(KeyOrder, LAMBDA n : n \in ProfileKeys)
ProviderKeyList == SelectSeq(KeyOrder, LAMBDA n : n \in ProviderKeys)

\* lines 134-160: what getAllProviders() returns, or that it throws
getAllProviders(xp) ==
    LET cliproxy == [ i \in 1..Len(CLIPROXY_PROVIDER_LIST) |->
                        resolveCLIProxyProvider(CLIPROXY_PROVIDER_LIST[i]) ]
        resolved == [ i \in 1..Len(ProfileKeyList) |->
                        resolveSettingsProfile(ProfileKeyList[i], xp) ]
        kept     == SelectSeq(resolved,
                              LAMBDA r : r.kind = "return" /\ r.value # None)
        settings == [ i \in 1..Len(kept) |-> Val(kept[i].value) ]
        api      == [ i \in 1..Len(ProviderKeyList) |->
                        resolveApiProvider(ProviderKeyList[i],
                            Val(Section(routerConfig, "providers"))[ProviderKeyList[i]]) ]
    IN  IF \E i \in 1..Len(resolved) : resolved[i].kind = "throw"
        THEN Throw
        ELSE Return(cliproxy \o settings \o api)

----------------------------------------------------------------------------
(* Calls in flight.                                                         *)

IdleTask == [pc |-> "idle"]
NoRet == [op |-> "none"]

FreeTasks == { t \in TaskIds : tasks[t].pc = "idle" }

\* A continuation that is ready to run (the `await` at lines 31-32 of an
\* already settled promise) runs before any I/O completion is delivered.
MicrotaskPending == \E t \in TaskIds : tasks[t].pc = "store"

\* line 54: portProcess !== null && isCLIProxyProcess(portProcess)
PortHealthyFrom(outcome) == outcome # "none" /\ outcome = "cliproxy"

\* lines 23-32, 45-53: how far a call of checkProviderHealth(p) runs before
\* it returns or suspends: a cache hit, the port probe, the HTTP request, or
\* (port status reused) the whole of checkCLIProxyProviderHealth.
StartKind(p) ==
    IF CacheFresh(CacheGet(p.name)) THEN "hit"
    ELSE IF p.type = "cliproxy" THEN (IF PortStale THEN "probe" ELSE "store")
    ELSE "fetch"

\* lines 28-32, 45-61, 95-107: the call as it stands at its first await:
\* where it is suspended, its startTime and, once built, its result.
\* `authenticated` is what getAuthStatus answers if it is asked in this stretch.
NewTask(p, group, idx, authenticated) ==
    LET kind == StartKind(p)
    IN  [pc |-> kind, provider |-> p, startTime |-> now,
         group |-> group, idx |-> idx,
         result |-> IF kind = "store"
                    THEN Some(CLIProxyResult(p.name, now - now,
                                  Val(cliproxyPortHealthy), authenticated))
                    ELSE None]

\* every provider name of the model
AllNames == { p.name : p \in UNION ProviderSets }

\* the history while nothing has been checked: for each call in flight, the
\* names invalidated since the probe behind its result began and the time of
\* that probe; the same for the port status and for each cached record
IdleTrace ==
    [began |-> [t \in TaskIds |-> {}],
     probeAt |-> [t \in TaskIds |-> None],
     portOld |-> {},
     recOld |-> {},
     recProbeAt |-> EmptyCache]

----------------------------------------------------------------------------
(* The health monitor's operations.                                         *)

\* the adapter's state while it is not called
AdapterIdle ==
    /\ areq = <<>>
    /\ aprov = <<>>
    /\ aret = [op |-> "none"]

\* the editor's state while it is not called
EditorIdle ==
    /\ configFile = <<>>
    /\ eret = [op |-> "none"]
    /\ edits = <<>>

\* the local-auth decision while it is not made
LocalAuthIdle ==
    /\ authIn = <<>>
    /\ authOut = [op |-> "none"]

\* the shutdown handler while it is not installed
ShutdownIdle ==
    /\ stime = 0
    /\ signalledAt = <<>>
    /\ clients = <<>>
    /\ httpServer = "listening"
    /\ timers = {}
    /\ exitCode = <<>>

\* the model-alias configuration while it is not called
AliasIdle ==
    /\ aliasFile = <<>>
    /\ defaultAliases = <<>>
    /\ mret = [op |-> "none"]

\* the resolver's state while only the health monitor runs
ResolverIdle ==
    /\ unifiedConfig = None
    /\ routerConfig = None
    /\ settingsFiles = <<>>
    /\ processEnv = <<>>
    /\ rret = NoRet

HealthInit ==
    /\ ResolverIdle
    /\ AdapterIdle
    /\ EditorIdle
    /\ LocalAuthIdle /\ ShutdownIdle /\ AliasIdle
    /\ now = 0
    /\ providers \in ProviderSets
    /\ healthCache = EmptyCache
    /\ cliproxyPortHealthy = None
    /\ cliproxyPortCheckedAt = None
    /\ tasks = [t \in TaskIds |-> IdleTask]
    /\ call = None
    /\ nChecks = 0
    /\ ret = NoRet
    /\ trace = IdleTrace

\* Time passes, between two stretches of code (a continuation that is ready
\* runs first).
Tick ==
    /\ ~MicrotaskPending
    /\ \E t \in TimePoints : t > now /\ now' = t
    /\ ret' = NoRet
    /\ UNCHANGED <<rvars, avars, evars, ovars, providers, healthCache, cliproxyPortHealthy,
                   cliproxyPortCheckedAt, tasks, call, nChecks>>

\* checkProviderHealth(p), lines 19-32, up to its return or first await
CheckProviderHealth(p) ==
    /\ nChecks < MaxChecks
    /\ nChecks' = nChecks + 1
    /\ IF StartKind(p) = "hit"
       THEN /\ ret' = [op |-> "check", hit |-> TRUE,
                       record |-> Val(CacheGet(p.name))]
            /\ tasks' = tasks
       ELSE /\ FreeTasks # {}
            /\ \E authenticated \in AuthStatuses :
                 LET t == CHOOSE f \in FreeTasks : \A g \in FreeTasks : f <= g
                 IN  tasks' = [tasks EXCEPT ![t] = NewTask(p, 0, 0, authenticated)]
            /\ ret' = NoRet
    /\ UNCHANGED <<rvars, avars, evars, ovars, providers, now, healthCache, cliproxyPortHealthy, cliproxyPortCheckedAt, call>>

\* lines 53-88: getPortProcess settles; the port status is written, the auth
\* status is asked and the record is built, in one synchronous stretch
ProbeDone(t, outcome, authenticated) ==
    /\ tasks[t].pc = "probe"
    /\ ~MicrotaskPending
    /\ LET tk == tasks[t]
           portHealthy == PortHealthyFrom(outcome)
       IN  /\ cliproxyPortHealthy' = Some(portHealthy)
           /\ cliproxyPortCheckedAt' = Some(now)
           /\ tasks' = [tasks EXCEPT ![t] =
                 [tk EXCEPT
                    !.pc = "store",
                    !.result = Some(CLIProxyResult(tk.provider.name,
                                        now - tk.startTime, portHealthy,
                                        authenticated))]]
    /\ ret' = NoRet
    /\ UNCHANGED <<rvars, avars, evars, ovars, providers, now, healthCache, call, nChecks>>

\* lines 100-135: fetch settles (the timeout after 5 s at the earliest) and
\* the record is built
FetchDone(t, outcome) ==
    /\ tasks[t].pc = "fetch"
    /\ ~MicrotaskPending
    /\ outcome.kind = "timeout" => now - tasks[t].startTime >= FETCH_TIMEOUT
    /\ LET tk == tasks[t]
       IN  tasks' = [tasks EXCEPT ![t] =
                 [tk EXCEPT
                    !.pc = "store",
                    !.result = Some(ApiResult(tk.provider.name,
                                        now - tk.startTime, outcome))]]
    /\ ret' = NoRet
    /\ UNCHANGED <<rvars, avars, evars, ovars, providers, now, healthCache, cliproxyPortHealthy, cliproxyPortCheckedAt,
                   call, nChecks>>

\* ResultSlot that puts every record in the first place
ResultSlotFirst(tk) == 1

\* the slot of a checkAll call that a check's record goes to
ResultSlot(tk) == tk.idx

\* lines 34-35: the record is stored and returned, to the caller of
\* checkProviderHealth or to the Promise.all of checkAllProvidersHealth
StoreAndReturn(t) ==
    /\ tasks[t].pc = "store"
    /\ LET tk == tasks[t]
       IN  /\ healthCache' = CacheSet(healthCache, tk.provider.name, Val(tk.result))
           /\ IF tk.group = 0
              THEN /\ ret' = [op |-> "check", hit |-> FALSE,
                              record |-> Val(tk.result)]
                   /\ call' = call
              ELSE /\ ret' = NoRet
                   /\ call' = Some([Val(call) EXCEPT
                                !.results[ResultSlot(tk)] = tk.result])
    /\ tasks' = [tasks EXCEPT ![t] = IdleTask]
    /\ UNCHANGED <<rvars, avars, evars, ovars, providers, now, cliproxyPortHealthy, cliproxyPortCheckedAt, nChecks>>

\* InvalidateHealthCache without lines 156-157: the port status survives
InvalidateKeepsPortStatus(arg) ==
    /\ IF TruthyString(arg)
       THEN healthCache' = CacheDelete(healthCache, Val(arg))
       ELSE healthCache' = EmptyCache
    /\ ret' = [op |-> "invalidate", arg |-> arg]
    /\ UNCHANGED <<rvars, avars, evars, ovars, providers, now, tasks, call, nChecks,
                   cliproxyPortHealthy, cliproxyPortCheckedAt>>

\* invalidateHealthCache(providerName?), lines 150-159
InvalidateHealthCache(arg) ==
    /\ IF TruthyString(arg)
       THEN /\ healthCache' = CacheDelete(healthCache, Val(arg))
            /\ UNCHANGED <<cliproxyPortHealthy, cliproxyPortCheckedAt>>
       ELSE /\ healthCache' = EmptyCache
            /\ cliproxyPortHealthy' = None
            /\ cliproxyPortCheckedAt' = None
    /\ ret' = [op |-> "invalidate", arg |-> arg]
    /\ UNCHANGED <<rvars, avars, evars, ovars, providers, now, tasks, call, nChecks>>

----------------------------------------------------------------------------
(* checkAllProvidersHealth, lines 141-145.                                  *)

\* the lists of providers a call is given
Batches == UNION { [1..n -> providers] : n \in 0..MaxChecks }

\* number of elements of S below x
Rank(S, x) == Cardinality({ y \in S : y < x })

\* providers.map(checkProviderHealth): the indexes whose call is started
\* before Promise.all awaits anything
StartedIndexes(ps) == 1..Len(ps)

\* Promise.all(providers.map(checkProviderHealth)): every call runs up to
\* its return (a cache hit) or its first await, one after the other, before
\* anything else runs.  None of these stretches writes shared state.
CheckAllProvidersHealth(ps) ==
    LET started == StartedIndexes(ps)
        misses == { i \in started : StartKind(ps[i]) # "hit" }
    IN  /\ call = None
        /\ nChecks + Len(ps) <= MaxChecks
        /\ Cardinality(misses) <= Cardinality(FreeTasks)
        /\ nChecks' = nChecks + Len(ps)
        /\ \E auths \in [misses -> AuthStatuses] :
             tasks' = [t \in TaskIds |->
                 IF t \in FreeTasks /\ Rank(FreeTasks, t) < Cardinality(misses)
                 THEN LET i == CHOOSE j \in misses :
                                  Rank(misses, j) = Rank(FreeTasks, t)
                      IN  NewTask(ps[i], 1, i, auths[i])
                 ELSE tasks[t]]
        /\ call' = Some([providers |-> ps,
                         results |-> [i \in 1..Len(ps) |->
                             IF i \in started /\ StartKind(ps[i]) = "hit"
                             THEN CacheGet(ps[i].name) ELSE None]])
        /\ ret' = NoRet
        /\ UNCHANGED <<rvars, avars, evars, ovars, providers, now, healthCache, cliproxyPortHealthy, cliproxyPortCheckedAt>>

\* Promise.all settles once every call has returned its record
CheckAllReturn ==
    /\ call # None
    /\ \A i \in 1..Len(Val(call).providers) : Val(call).results[i] # None
    /\ ret' = [op |-> "checkAll", providers |-> Val(call).providers,
               records |-> [i \in 1..Len(Val(call).providers) |->
                               Val(Val(call).results[i])]]
    /\ call' = None
    /\ UNCHANGED <<rvars, avars, evars, ovars, providers, now, healthCache, cliproxyPortHealthy, cliproxyPortCheckedAt,
                   tasks, nChecks>>

HealthNext ==
    \/ Tick /\ UNCHANGED trace
    \/ \E p \in providers : CheckProviderHealth(p) /\ UNCHANGED trace
    \/ \E t \in TaskIds, o \in PortProbeOutcomes, a \in AuthStatuses :
          ProbeDone(t, o, a) /\ UNCHANGED trace
    \/ \E t \in TaskIds, o \in FetchOutcomes : FetchDone(t, o) /\ UNCHANGED trace
    \/ \E t \in TaskIds : StoreAndReturn(t) /\ UNCHANGED trace
    \/ \E arg \in InvalidateArgs : InvalidateHealthCache(arg) /\ UNCHANGED trace

\* single checks and invalidations, in any interleaving
HealthSpec == HealthInit /\ [][HealthNext]_vars

CheckAllNext ==
    \/ Tick /\ UNCHANGED trace
    \/ \E t \in TaskIds, o \in PortProbeOutcomes, a \in AuthStatuses :
          ProbeDone(t, o, a) /\ UNCHANGED trace
    \/ \E t \in TaskIds, o \in FetchOutcomes : FetchDone(t, o) /\ UNCHANGED trace
    \/ \E t \in TaskIds : StoreAndReturn(t) /\ UNCHANGED trace
    \/ \E ps \in Batches : CheckAllProvidersHealth(ps) /\ UNCHANGED trace
    \/ CheckAllReturn /\ UNCHANGED trace

\* checkAllProvidersHealth calls, one at a time
CheckAllSpec == HealthInit /\ [][CheckAllNext]_vars

\* The event loop runs a continuation that is ready, and every probe and
\* request settles (the request after 5 s at the latest).
Completion ==
    \/ \E t \in TaskIds, o \in PortProbeOutcomes, a \in AuthStatuses :
          ProbeDone(t, o, a) /\ UNCHANGED trace
    \/ \E t \in TaskIds, o \in FetchOutcomes : FetchDone(t, o) /\ UNCHANGED trace
    \/ \E t \in TaskIds : StoreAndReturn(t) /\ UNCHANGED trace
    \/ CheckAllReturn /\ UNCHANGED trace

CheckAllFairSpec == CheckAllSpec /\ WF_vars(Completion)

----------------------------------------------------------------------------
(* Single checks and invalidations with their history: which port probe     *)
(* each result, port status and cached record derives from, and which names *)
(* have been invalidated since that probe began.                            *)

\* the names an invalidateHealthCache(arg) call covers
Covered(arg) == IF TruthyString(arg) THEN {Val(arg)} ELSE AllNames

\* the place a call that misses the cache is suspended at
NextTask == CHOOSE f \in FreeTasks : \A g \in FreeTasks : f <= g

\* lines 28-32: a call that misses the cache; when it reuses the port status
\* (lines 48-52 false), its result derives from the probe behind that status
TraceMiss(p) ==
    /\ StartKind(p) # "hit"
    /\ CheckProviderHealth(p)
    /\ trace' = [trace EXCEPT
          !.began[NextTask] = IF StartKind(p) = "store" THEN trace.portOld ELSE {},
          !.probeAt[NextTask] = IF StartKind(p) = "store"
                                THEN cliproxyPortCheckedAt ELSE None]

\* lines 23-26: a call served from the cache
CachedCheck(p) ==
    /\ StartKind(p) = "hit"
    /\ ret' = [op |-> "check", hit |-> TRUE, record |-> Val(CacheGet(p.name))]
    /\ UNCHANGED <<rvars, avars, evars, ovars, providers, now, healthCache,
                   cliproxyPortHealthy, cliproxyPortCheckedAt, tasks, call,
                   nChecks, trace>>

\* lines 53-56: the probe of this call is the one behind the port status
TraceProbeDone(t, outcome, authenticated) ==
    /\ ProbeDone(t, outcome, authenticated)
    /\ trace' = [trace EXCEPT !.probeAt[t] = Some(now),
                              !.portOld = trace.began[t]]

TraceFetchDone(t, outcome) ==
    /\ FetchDone(t, outcome)
    /\ UNCHANGED trace

\* line 34: the cached record derives from the probe behind the call's result
TraceStore(t) ==
    /\ StoreAndReturn(t)
    /\ LET name == tasks[t].provider.name
       IN  trace' = [trace EXCEPT
              !.recOld = (trace.recOld \ {name})
                            \cup (IF name \in trace.began[t] THEN {name} ELSE {}),
              !.recProbeAt = CacheSet(trace.recProbeAt, name, trace.probeAt[t]),
              !.began[t] = {},
              !.probeAt[t] = None]

\* lines 150-159: the names covered are invalidated for every probe that has
\* begun, and what the call deletes has no history left
TraceInvalidate(arg) ==
    /\ InvalidateHealthCache(arg)
    /\ trace' = [trace EXCEPT
          !.began = [t \in TaskIds |->
                        IF tasks[t].pc = "idle" THEN {}
                        ELSE trace.began[t] \cup Covered(arg)],
          !.portOld = IF ~TruthyString(arg) \/ cliproxyPortCheckedAt = None
                      THEN {} ELSE trace.portOld \cup Covered(arg),
          !.recOld = trace.recOld \ Covered(arg),
          !.recProbeAt = IF TruthyString(arg)
                         THEN CacheDelete(trace.recProbeAt, Val(arg))
                         ELSE EmptyCache]

HealthTraceNext ==
    \/ Tick /\ UNCHANGED trace
    \/ \E p \in providers : TraceMiss(p)
    \/ \E p \in providers : CachedCheck(p)
    \/ \E t \in TaskIds, o \in PortProbeOutcomes, a \in AuthStatuses :
          TraceProbeDone(t, o, a)
    \/ \E t \in TaskIds, o \in FetchOutcomes : TraceFetchDone(t, o)
    \/ \E t \in TaskIds : TraceStore(t)
    \/ \E arg \in InvalidateArgs : TraceInvalidate(arg)

HealthTraceSpec == HealthInit /\ [][HealthTraceNext]_vars

----------------------------------------------------------------------------
(* The resolver's inputs and operations.                                    *)

\* the names that have, or may have, an entry in the two maps
ConfigNames == {"agy", "glm"}

\* the names getProvider is asked for
ResolveNames == ConfigNames \cup {"nope", "constructor"}

SettingsPath(name) == "~/.ccs/" \o name \o ".settings.json"

\* the profiles section of config.yaml: name -> { settings: path }
ProfileMaps ==
    { [n \in S |-> [settings |-> SettingsPath(n)]] : S \in SUBSET ConfigNames }

\* what loadUnifiedConfig() returns: null, a config without profiles, or one
\* with a profiles object
UnifiedConfigs ==
    {None, Some([profiles |-> None])}
    \cup { Some([profiles |-> Some(m)]) : m \in ProfileMaps }

\* the providers section of the router config: name -> ApiProviderConfig
ProviderMaps ==
    { [n \in S |-> [adapter |-> "openai",
                    base_url |-> "https://api.example.com/" \o n,
                    auth_env |-> "EXAMPLE_API_KEY"]] : S \in SUBSET ConfigNames }

\* what loadRouterConfig() returns
RouterConfigs ==
    {None, Some([providers |-> None])}
    \cup { Some([providers |-> Some(m)]) : m \in ProviderMaps }

\* a settings file: missing, not JSON, the JSON text `null` (settings.env
\* throws inside the try block), or a JSON object with or without env
FileStates ==
    { [state |-> "missing"],
      [state |-> "garbage"],
      [state |-> "null"],
      [state |-> "json", env |-> Some([ANTHROPIC_BASE_URL |-> Some(""),
                                       ANTHROPIC_AUTH_TOKEN |-> Some("")])],
      [state |-> "json", env |-> None],
      [state |-> "json", env |-> Some([ANTHROPIC_BASE_URL |-> None,
                                       ANTHROPIC_AUTH_TOKEN |-> None])],
      [state |-> "json",
       env |-> Some([ANTHROPIC_BASE_URL |-> Some("https://api.z.ai/api/anthropic"),
                     ANTHROPIC_AUTH_TOKEN |-> Some("tok123")])] }

ProcessEnvs == { <<>>, [k \in {"EXAMPLE_API_KEY"} |-> "sk-1"] }

\* the health monitor's state while only the resolver runs
HealthIdle ==
    /\ now = 0
    /\ providers = {}
    /\ healthCache = EmptyCache
    /\ cliproxyPortHealthy = None
    /\ cliproxyPortCheckedAt = None
    /\ tasks = [t \in TaskIds |-> IdleTask]
    /\ call = None
    /\ nChecks = 0
    /\ ret = NoRet
    /\ trace = IdleTrace

ResolverInit ==
    /\ HealthIdle
    /\ AdapterIdle
    /\ EditorIdle
    /\ LocalAuthIdle /\ ShutdownIdle /\ AliasIdle
    /\ unifiedConfig \in UnifiedConfigs
    /\ routerConfig \in RouterConfigs
    /\ settingsFiles \in [{ SettingsPath(n) : n \in ConfigNames } -> FileStates]
    /\ processEnv \in ProcessEnvs
    /\ rret = NoRet

\* the settings files after the file of `name` has been removed
WithoutSettingsFile(name) ==
    [ f \in DOMAIN settingsFiles |->
        IF f = SettingsPath(name) THEN [state |-> "missing"] ELSE settingsFiles[f] ]

\* GetProvider that removes the settings file it has read
GetProviderConsumingFile(name) ==
    /\ \E xp \in ExpandUndefinedOutcomes :
          rret' = [op |-> "getProvider", name |-> name,
                   again |-> (rret.op = "getProvider" /\ rret.name = name),
                   result |-> getProvider(name, xp)]
    /\ settingsFiles' = WithoutSettingsFile(name)
    /\ UNCHANGED <<hvars, avars, evars, ovars, unifiedConfig, routerConfig, processEnv>>

\* a call of getProvider(name); `again` tells that the call before it was
\* one of the same name
GetProvider(name) ==
    /\ \E xp \in ExpandUndefinedOutcomes :
          rret' = [op |-> "getProvider", name |-> name,
                   again |-> (rret.op = "getProvider" /\ rret.name = name),
                   result |-> getProvider(name, xp)]
    /\ UNCHANGED <<hvars, avars, evars, ovars, unifiedConfig, routerConfig, settingsFiles, processEnv>>

\* a call of getAllProviders()
GetAllProviders ==
    /\ \E xp \in ExpandUndefinedOutcomes :
          rret' = [op |-> "getAllProviders", result |-> getAllProviders(xp)]
    /\ UNCHANGED <<hvars, avars, evars, ovars, unifiedConfig, routerConfig, settingsFiles, processEnv>>

ResolverNext ==
    \/ \E name \in ResolveNames : GetProvider(name)
    \/ GetAllProviders

ResolverSpec == ResolverInit /\ [][ResolverNext]_vars

----------------------------------------------------------------------------
(* The Anthropic pass-through adapter (src/router/adapters/anthropic).      *)

\* { ...a, ...b } and Object.assign(a, b): the keys of both, b's values winning
ObjectAssign(a, b) ==
    [ k \in DOMAIN a \cup DOMAIN b |-> IF k \in DOMAIN b THEN b[k] ELSE a[k] ]

\* an object with the one key k
Single(k, v) == [ x \in {k} |-> v ]

\* transformRequest with the spread written after the model: a model the
\* request already names wins over targetModel
transformRequestSpreadLast(req, targetModel, provider) ==
    ObjectAssign(Single("model", targetModel), req)

\* lines 12-22: { ...req, model: targetModel }
transformRequest(req, targetModel, provider) ==
    ObjectAssign(req, Single("model", targetModel))

\* getHeaders with the custom headers merged first: the two built-in
\* entries win over them
getHeadersCustomFirst(provider) ==
    LET custom == IF provider.headers # None THEN Val(provider.headers) ELSE <<>>
        typed == ObjectAssign(custom, Single("Content-Type", "application/json"))
    IN  IF TruthyString(provider.authToken)
        THEN ObjectAssign(typed,
                 Single("Authorization", "Bearer " \o Val(provider.authToken)))
        ELSE typed

\* lines 34-49
getHeaders(provider) ==
    LET headers == Single("Content-Type", "application/json")
        authed  == IF TruthyString(provider.authToken)
                   THEN ObjectAssign(headers,
                            Single("Authorization",
                                   "Bearer " \o Val(provider.authToken)))
                   ELSE headers
    IN  IF provider.headers # None
        THEN ObjectAssign(authed, Val(provider.headers))
        ELSE authed

\* s.endsWith(suffix)
EndsWith(s, suffix) ==
    /\ Len(s) >= Len(suffix)
    /\ SubSeq(s, Len(s) - Len(suffix) + 1, Len(s)) = suffix

\* s.replace(/\/$/, ''): one trailing slash removed
StripOneSlash(s) ==
    IF EndsWith(s, "/") THEN SubSeq(s, 1, Len(s) - 1) ELSE s

\* line 54: s.replace(/\/+$/, ''), every trailing slash removed
RECURSIVE StripTrailingSlashes(_)
StripTrailingSlashes(s) ==
    IF EndsWith(s, "/") THEN StripTrailingSlashes(SubSeq(s, 1, Len(s) - 1)) ELSE s

\* lines 51-59
getEndpoint(provider) ==
    LET baseUrl == StripTrailingSlashes(Val(provider.baseUrl))
    IN  IF EndsWith(baseUrl, "/v1")
        THEN baseUrl \o "/messages"
        ELSE baseUrl \o "/v1/messages"

\* the requests a caller passes
Requests ==
    { [model |-> "claude-sonnet-4", max_tokens |-> 1024, stream |-> TRUE],
      [model |-> "gemini-2.5-pro", max_tokens |-> 1024],
      [max_tokens |-> 256, system |-> "be brief"],
      [model |-> "claude-sonnet-4", max_tokens |-> 64,
       messages |-> <<[role |-> "user", content |-> "hi"]>>] }

TargetModels == {"gemini-2.5-pro", "glm-4.6"}

\* base URLs with and without the version segment and trailing slashes
BaseUrls ==
    { "https://api.example.com", "https://api.example.com/",
      "https://api.example.com//", "https://api.example.com/v1",
      "https://api.example.com/v1/", "https://api.example.com/v1///",
      "http://127.0.0.1:8317/api/provider/agy/v1",
      "https://api.z.ai/api/anthropic", "https://api.z.ai/api/anthropic/",
      "https://api.example.com/v1beta", "https://api.example.com/v2/",
      "", "/" }

\* provider.authToken: undefined, empty, or a token
AuthTokens == {None, Some(""), Some("tok123")}

\* provider.headers: undefined, empty, or custom headers
CustomHeaders ==
    { None, Some(<<>>),
      Some(Single("X-Title", "ccs")),
      Some(Single("Authorization", "Basic dXNlcg==")),
      Some(Single("Content-Type", "text/plain")),
      Some(ObjectAssign(Single("Content-Type", "text/plain"),
                        Single("Authorization", "Basic dXNlcg=="))) }

\* the resolved providers the adapter is handed
AdapterProviders ==
    { [name |-> "p", type |-> "api", adapter |-> Some("anthropic"),
       baseUrl |-> Some(b), authToken |-> t, headers |-> h] :
         b \in BaseUrls, t \in AuthTokens, h \in CustomHeaders }

AdapterInit ==
    /\ HealthIdle
    /\ ResolverIdle
    /\ EditorIdle
    /\ LocalAuthIdle /\ ShutdownIdle /\ AliasIdle
    /\ areq \in Requests
    /\ aprov \in AdapterProviders
    /\ aret = NoRet

\* a call of transformRequest(areq, targetModel, aprov)
TransformRequest(targetModel) ==
    /\ aret' = [op |-> "transformRequest", targetModel |-> targetModel,
                result |-> transformRequest(areq, targetModel, aprov)]
    /\ UNCHANGED <<hvars, rvars, evars, ovars, areq, aprov>>

\* a call of getHeaders(aprov)
GetHeaders ==
    /\ aret' = [op |-> "getHeaders", result |-> getHeaders(aprov)]
    /\ UNCHANGED <<hvars, rvars, evars, ovars, areq, aprov>>

\* a call of getEndpoint(aprov)
GetEndpoint ==
    /\ aret' = [op |-> "getEndpoint", result |-> getEndpoint(aprov)]
    /\ UNCHANGED <<hvars, rvars, evars, ovars, areq, aprov>>

AdapterNext ==
    \/ \E targetModel \in TargetModels : TransformRequest(targetModel)
    \/ GetHeaders
    \/ GetEndpoint

AdapterSpec == AdapterInit /\ [][AdapterNext]_vars

----------------------------------------------------------------------------
(* The router configuration editor (src/router/config/editor).              *)
(*                                                                          *)
(* The file is parsed into a comment-preserving YAML document               *)
(* (parseDocument).  A document is modelled by what the editor can tell     *)
(* apart: its formatting, whether it holds a hand-written comment, whether  *)
(* it holds another top-level section, and its router section.  The         *)
(* document API is that of the yaml library: get and getIn return the       *)
(* value of a scalar and the node (a YAMLMap) of a collection; set and      *)
(* setIn store the value they are given as it is, without making a node of  *)
(* it, and create nodes only for the missing part of a path.                *)

\* the names callers pass: two profile names and a name every JavaScript
\* object has a member for
EditorNames == {"glm", "kimi", "constructor"}

\* RouterProfile values
ProfileData ==
    { [provider |-> "glm", model |-> "glm-4.6"],
      [provider |-> "agy", model |-> "gemini-2.5-pro"] }

\* the router.profiles maps a file may hold
StoredProfiles ==
    UNION { [S -> ProfileData] : S \in SUBSET {"glm", "kimi"} }

\* the router section of a file: absent, `router:` without a value, or a map
\* with or without defaults and profiles
RouterSections ==
    { [kind |-> "absent"], [kind |-> "null"] }
    \cup { [kind |-> "map", defaults |-> d, profiles |-> ps] :
              d \in {None, Some([tier |-> "fast"])},
              ps \in {None} \cup { Some(m) : m \in StoredProfiles } }

\* the documents a file may hold
Documents ==
    { [format |-> f, comment |-> c, other |-> o, router |-> r] :
         f \in {"hand", "canonical"}, c \in BOOLEAN, o \in BOOLEAN,
         r \in RouterSections }

\* the file is missing, or holds a document
ConfigFiles == {None} \cup { Some(d) : d \in Documents }

\* parseDocument(''): no contents
EmptyDocument ==
    [format |-> "canonical", comment |-> FALSE, other |-> FALSE,
     router |-> [kind |-> "absent"]]

\* lines 13-15: the document the editor works on
ParsedDocument(file) == IF file = None THEN EmptyDocument ELSE Val(file)

\* doc.contents is null: the document holds no top-level key
ContentsNull(doc) == ~doc.other /\ doc.router.kind = "absent"

\* doc.toString() written to the file: the document in the serializer's
\* formatting
Written(doc) == Some([doc EXCEPT !.format = "canonical"])

\* What setIn does when a step of its path is a plain value (one stored by
\* an earlier set, not a node): it throws 'Expected YAML collection', or it
\* sets the key.
SetInThroughPlainOutcomes == {"throws", "sets"}

\* the outcome of an editor call: it threw, or it returned `result` and
\* left the file as `file`, having written it or not
Threw(file) == [threw |-> TRUE, wrote |-> FALSE, result |-> FALSE, file |-> file]
Returned(result, wrote, file) ==
    [threw |-> FALSE, wrote |-> wrote, result |-> result, file |-> file]

\* lines 9-31
saveRouterProfile(file, name, profile, through) ==
    LET doc == ParsedDocument(file)
        \* lines 18-20: a missing router section is set to { profiles: {} },
        \* as nodes in a document without contents, as a plain value otherwise
        routerPlain == doc.router.kind = "absent" /\ ~ContentsNull(doc)
        router18 == IF doc.router.kind = "absent"
                    THEN [kind |-> "map", defaults |-> None, profiles |-> Some(<<>>)]
                    ELSE doc.router
    IN  \* line 21-22: doc.get('router') of `router:` is undefined, and
        \* reading .profiles of it throws
        IF router18.kind = "null" THEN Threw(file)
        ELSE LET \* line 22: a YAMLMap node has no property `profiles`, the
                 \* plain value { profiles: {} } has: line 23 runs for every
                 \* node and stores a plain, empty object
                 router23 == IF routerPlain THEN router18
                             ELSE [router18 EXCEPT !.profiles = Some(<<>>)]
             IN  \* line 27: the path leads through a plain value
                 IF through = "throws" THEN Threw(file)
                 ELSE Returned(FALSE, TRUE,
                        Written([doc EXCEPT !.router =
                           [router23 EXCEPT !.profiles =
                               Some(ObjectAssign(Val(router23.profiles),
                                                 Single(name, profile)))]]))

\* line 44: doc.getIn(['router', 'profiles']): the node of the profiles map,
\* or undefined
ProfilesNode(doc) ==
    IF doc.router.kind = "map" THEN doc.router.profiles ELSE None

\* line 46: profiles?.[name], a property of the node (not an entry of the
\* map): found for the members every object has
NodeProperty(node, name) ==
    IF node = None THEN None
    ELSE IF name \in ObjectPrototypeKeys THEN Some(Inherited(name))
    ELSE None

\* line 50: doc.deleteIn(['router', 'profiles', name])
DeleteIn(doc, name) ==
    [doc EXCEPT !.router.profiles =
        Some([ n \in DOMAIN Val(doc.router.profiles) \ {name} |->
                 Val(doc.router.profiles)[n] ])]

\* lines 36-54
deleteRouterProfile(file, name) ==
    IF file = None THEN Returned(FALSE, FALSE, file)
    ELSE LET doc == ParsedDocument(file)
         IN  IF NodeProperty(ProfilesNode(doc), name) = None
             THEN Returned(FALSE, FALSE, file)
             ELSE Returned(TRUE, TRUE, Written(DeleteIn(doc, name)))

\* Partial<RouterConfig['defaults']> values
PartialDefaults == { [tier |-> "smart"], [fallback |-> "agy"] }

\* the own enumerable properties of a YAMLMap node, which a spread copies:
\* its items array and its source range (schema and node type are not
\* enumerable); the keys of the map are no properties of the node
NodeOwnProperties == [items |-> "[Pair]", range |-> "[start, valueEnd, nodeEnd]"]

\* line 72: doc.getIn(['router', 'defaults']) ?? {} - the node of the
\* defaults map, seen as the object a spread makes of it, or {} when there
\* is none or the router section is no node
ExistingDefaults(router, routerPlain) ==
    IF routerPlain \/ router.kind # "map" THEN <<>>
    ELSE IF router.defaults = None THEN <<>>
    ELSE NodeOwnProperties

\* lines 59-76
updateRouterDefaults(file, defaults, through) ==
    LET doc == ParsedDocument(file)
        \* lines 68-70: a missing router section is set to {}, as a node in
        \* a document without contents, as a plain value otherwise
        routerPlain == doc.router.kind = "absent" /\ ~ContentsNull(doc)
        router68 == IF doc.router.kind = "absent"
                    THEN [kind |-> "map", defaults |-> None, profiles |-> None]
                    ELSE doc.router
        merged == ObjectAssign(ExistingDefaults(router68, routerPlain), defaults)
    IN  \* line 73: setIn through `router:` (a scalar) throws; through a
        \* plain value it throws or sets
        IF router68.kind = "null" THEN Threw(file)
        ELSE IF routerPlain /\ through = "throws" THEN Threw(file)
        ELSE Returned(FALSE, TRUE,
                Written([doc EXCEPT !.router =
                    [router68 EXCEPT !.defaults = Some(merged)]]))

\* the editor calls that may be in flight at once
EditIds == 1..MaxEdits
IdleEdit == [pc |-> "idle"]

EditorInit ==
    /\ HealthIdle
    /\ ResolverIdle
    /\ AdapterIdle
    /\ LocalAuthIdle /\ ShutdownIdle /\ AliasIdle
    /\ configFile \in ConfigFiles
    /\ eret = NoRet
    /\ edits = [i \in EditIds |-> IdleEdit]

\* a call of saveRouterProfile(name, profile)
SaveRouterProfile(name, profile) ==
    /\ \E through \in SetInThroughPlainOutcomes :
          LET out == saveRouterProfile(configFile, name, profile, through)
          IN  /\ configFile' = out.file
              /\ eret' = [op |-> "save", name |-> name, profile |-> profile,
                          threw |-> out.threw, wrote |-> out.wrote,
                          result |-> out.result]
    /\ UNCHANGED <<hvars, rvars, avars, ovars, edits>>

\* a call of deleteRouterProfile(name)
DeleteRouterProfile(name) ==
    /\ LET out == deleteRouterProfile(configFile, name)
       IN  /\ configFile' = out.file
           /\ eret' = [op |-> "delete", name |-> name, profile |-> None,
                       threw |-> out.threw, wrote |-> out.wrote,
                       result |-> out.result]
    /\ UNCHANGED <<hvars, rvars, avars, ovars, edits>>

\* a call of updateRouterDefaults(defaults)
UpdateRouterDefaults(defaults) ==
    /\ \E through \in SetInThroughPlainOutcomes :
          LET out == updateRouterDefaults(configFile, defaults, through)
          IN  /\ configFile' = out.file
              /\ eret' = [op |-> "update", defaults |-> defaults,
                          threw |-> out.threw, wrote |-> out.wrote,
                          result |-> out.result]
    /\ UNCHANGED <<hvars, rvars, avars, ovars, edits>>

EditorNext ==
    \/ \E name \in EditorNames, profile \in ProfileData :
          SaveRouterProfile(name, profile)
    \/ \E name \in EditorNames : DeleteRouterProfile(name)
    \/ \E defaults \in PartialDefaults : UpdateRouterDefaults(defaults)

EditorSpec == EditorInit /\ [][EditorNext]_vars

----------------------------------------------------------------------------
(* The editor's calls, step by step: each call reads and parses the file    *)
(* (readFileSync, parseDocument), changes the document and writes it        *)
(* (writeFileSync).                                                         *)

\* the calls a caller can make
EditCalls ==
    { [op |-> "save", name |-> n, profile |-> p] :
         n \in EditorNames, p \in ProfileData }
    \cup { [op |-> "delete", name |-> n] : n \in EditorNames }
    \cup { [op |-> "update", defaults |-> d] : d \in PartialDefaults }

\* what the call makes of the file it has read
ApplyEdit(c, file, through) ==
    IF c.op = "save" THEN saveRouterProfile(file, c.name, c.profile, through)
    ELSE IF c.op = "delete" THEN deleteRouterProfile(file, c.name)
    ELSE updateRouterDefaults(file, c.defaults, through)

\* an editor function that awaited its read (fs.promises.readFile) would
\* be suspended between its read and its write
SuspendsAfterReadAsync == TRUE

\* lines 13-30, 43-51, 64-75: the functions are declared async but hold no
\* await, and readFileSync / writeFileSync are synchronous: a call is never
\* suspended between its read and its write
SuspendsAfterRead == FALSE

\* another call can start only while no call is running, or while the
\* running ones are suspended
CanStartEdit ==
    \A j \in EditIds : edits[j].pc = "read" => SuspendsAfterRead

\* lines 13-15, 43, 64-66: a call starts and reads the file
EditRead(i, c) ==
    /\ edits[i].pc = "idle"
    /\ CanStartEdit
    /\ edits' = [edits EXCEPT ![i] = [pc |-> "read", call |-> c,
                                      snapshot |-> configFile]]
    /\ eret' = NoRet
    /\ UNCHANGED <<hvars, rvars, avars, ovars, configFile>>

\* lines 18-30, 44-53, 68-75: the call changes the document it parsed and
\* writes it, or returns or throws without writing
EditWrite(i) ==
    /\ edits[i].pc = "read"
    /\ \E through \in SetInThroughPlainOutcomes :
          LET out == ApplyEdit(edits[i].call, edits[i].snapshot, through)
          IN  /\ configFile' = IF out.wrote THEN out.file ELSE configFile
              /\ eret' = [op |-> edits[i].call.op, call |-> edits[i].call,
                          threw |-> out.threw, wrote |-> out.wrote,
                          result |-> out.result]
    /\ edits' = [edits EXCEPT ![i] = IdleEdit]
    /\ UNCHANGED <<hvars, rvars, avars, ovars>>

EditorStepNext ==
    \/ \E i \in EditIds, c \in EditCalls : EditRead(i, c)
    \/ \E i \in EditIds : EditWrite(i)

EditorStepSpec == EditorInit /\ [][EditorStepNext]_vars

----------------------------------------------------------------------------
(* The local-auth decision (tests/unit/cliproxy/skip-local-auth.test.ts):   *)
(* JavaScript values and the operators && and !, which work on the          *)
(* truthiness of their operands and, for &&, return one of the operands.    *)

\* the router's components while another component runs
RouterIdle ==
    /\ HealthIdle
    /\ ResolverIdle
    /\ AdapterIdle
    /\ EditorIdle

JsBoolean(b) == [t |-> "boolean", v |-> b]
JsString(str) == [t |-> "string", v |-> str]
JsUndefined == [t |-> "undefined"]

\* truthiness that tells only undefined from a value
TruthyDefined(x) ==
    IF x.t = "boolean" THEN x.v ELSE x.t = "string"

\* ToBoolean: false, undefined and the empty string are falsy
Truthy(x) ==
    IF x.t = "boolean" THEN x.v
    ELSE IF x.t = "string" THEN x.v # ""
    ELSE FALSE

\* a && b
LogicalAnd(a, b) == IF Truthy(a) THEN b ELSE a

\* !a
LogicalNot(a) == JsBoolean(~Truthy(a))

\* lines 15, 24, 33, 42, 51, 68, 82, 98: useRemoteProxy && authToken
skipLocalAuth(useRemoteProxy, authToken) ==
    LogicalAnd(useRemoteProxy, authToken)

\* lines 69, 83, 99: providerRequiresOAuth && !skipLocalAuth
shouldTriggerLocalOAuth(providerRequiresOAuth, skip) ==
    LogicalAnd(providerRequiresOAuth, LogicalNot(skip))

\* lines 193, 207: !!config.proxyHost
useRemoteProxyOf(proxyHost) == LogicalNot(LogicalNot(proxyHost))

\* lines 194, 208: useRemoteProxy && !!config.proxyAuthToken
skipLocalAuthCi(proxyHost, proxyAuthToken) ==
    LogicalAnd(useRemoteProxyOf(proxyHost),
               LogicalNot(LogicalNot(proxyAuthToken)))

\* the tokens and hosts of the scenarios, with undefined and ''
AuthTokenValues ==
    {JsUndefined, JsString(""), JsString("test-token-123"),
     JsString("bearer-token"), JsString("github-secret-token")}
ProxyHostValues == {JsUndefined, JsString(""), JsString("proxy.example.com")}

LocalAuthInputs ==
    [useRemoteProxy : {JsBoolean(TRUE), JsBoolean(FALSE)},
     proxyHost : ProxyHostValues,
     authToken : AuthTokenValues,
     providerRequiresOAuth : {JsBoolean(TRUE), JsBoolean(FALSE)}]

LocalAuthInit ==
    /\ RouterIdle
    /\ ShutdownIdle
    /\ AliasIdle
    /\ authIn \in LocalAuthInputs
    /\ authOut = NoRet

\* lines 11-54: the flag alone
FlagDetermination ==
    /\ authOut' = [op |-> "flag",
                   skipLocalAuth |-> skipLocalAuth(authIn.useRemoteProxy,
                                                   authIn.authToken)]
    /\ UNCHANGED <<hvars, rvars, avars, evars, svars, mvars, authIn>>

\* lines 58-103: the flag and the OAuth decision made from it
OAuthCheck ==
    /\ LET skip == skipLocalAuth(authIn.useRemoteProxy, authIn.authToken)
       IN  authOut' = [op |-> "oauth",
                       skipLocalAuth |-> skip,
                       shouldTriggerLocalOAuth |->
                           shouldTriggerLocalOAuth(
                               authIn.providerRequiresOAuth, skip)]
    /\ UNCHANGED <<hvars, rvars, avars, evars, svars, mvars, authIn>>

\* lines 179-211: the flag from a workflow's proxy options
CiWorkflow ==
    /\ authOut' = [op |-> "ci",
                   useRemoteProxy |-> useRemoteProxyOf(authIn.proxyHost),
                   skipLocalAuth |-> skipLocalAuthCi(authIn.proxyHost,
                                                     authIn.authToken)]
    /\ UNCHANGED <<hvars, rvars, avars, evars, svars, mvars, authIn>>

LocalAuthNext ==
    \/ FlagDetermination
    \/ OAuthCheck
    \/ CiWorkflow

LocalAuthSpec == LocalAuthInit /\ [][LocalAuthNext]_vars

----------------------------------------------------------------------------
(* The graceful shutdown handler (utils/hooks/index.ts).  The handler runs  *)
(* to completion on each signal; the HTTP server's close callback and the   *)
(* timeout callback run later, from the event loop.                         *)

\* line 21
SHUTDOWN_TIMEOUT == 10000

\* the clock moves in steps of half the timeout
ShutdownStep == SHUTDOWN_TIMEOUT \div 2

ClientIds == 1..MaxClients
Signals == {"SIGINT", "SIGTERM"}

\* a handler that restarts its timeout on every signal
ArmTimeoutRestarted(pending, at) == {at + SHUTDOWN_TIMEOUT}

\* lines 47-50: setTimeout(..., SHUTDOWN_TIMEOUT); earlier timeouts stay
ArmTimeout(pending, at) == pending \cup {at + SHUTDOWN_TIMEOUT}

\* line 32: client.close(1001, ...) sends the close frame to an open client
CloseClient(state) == IF state = "open" THEN "closing" ELSE state

\* line 41: server.close(cb) stops a listening server from accepting
CloseServer(state) == IF state = "listening" THEN "closing" ELSE state

ShutdownInit ==
    /\ RouterIdle
    /\ LocalAuthIdle
    /\ AliasIdle
    /\ stime = 0
    /\ signalledAt = <<>>
    /\ clients = [c \in ClientIds |-> "absent"]
    /\ httpServer = "listening"
    /\ timers = {}
    /\ exitCode = None

\* a WebSocket client connects; the server accepts none once it is closing
ClientConnect(c) ==
    /\ exitCode = None
    /\ httpServer = "listening"
    /\ clients[c] = "absent"
    /\ clients' = [clients EXCEPT ![c] = "open"]
    /\ UNCHANGED <<hvars, rvars, avars, evars, lvars, mvars,
                   stime, signalledAt, httpServer, timers, exitCode>>

\* a client's connection ends: it leaves, or it answers the close frame
ClientGone(c) ==
    /\ exitCode = None
    /\ clients[c] \in {"open", "closing"}
    /\ clients' = [clients EXCEPT ![c] = "absent"]
    /\ UNCHANGED <<hvars, rvars, avars, evars, lvars, mvars,
                   stime, signalledAt, httpServer, timers, exitCode>>

\* lines 27-51: shutdown, the handler of SIGINT and SIGTERM (lines 53-54)
Shutdown(sig) ==
    /\ exitCode = None
    /\ Len(signalledAt) < MaxSignals
    /\ signalledAt' = Append(signalledAt, [signal |-> sig, at |-> stime])
    /\ clients' = [c \in ClientIds |-> CloseClient(clients[c])]
    /\ httpServer' = CloseServer(httpServer)
    /\ timers' = ArmTimeout(timers, stime)
    /\ UNCHANGED <<hvars, rvars, avars, evars, lvars, mvars, stime, exitCode>>

\* lines 41-44: the server has no connection left and emits close; the
\* callback exits with 0
ServerClosed ==
    /\ exitCode = None
    /\ httpServer = "closing"
    /\ \A c \in ClientIds : clients[c] = "absent"
    /\ httpServer' = "closed"
    /\ exitCode' = Some(0)
    /\ UNCHANGED <<hvars, rvars, avars, evars, lvars, mvars,
                   stime, signalledAt, clients, timers>>

\* lines 47-50: a timeout is due; its callback exits with 1
TimeoutFires(deadline) ==
    /\ exitCode = None
    /\ deadline \in timers
    /\ stime >= deadline
    /\ timers' = timers \ {deadline}
    /\ exitCode' = Some(1)
    /\ UNCHANGED <<hvars, rvars, avars, evars, lvars, mvars,
                   stime, signalledAt, clients, httpServer>>

\* time passes, up to the next deadline
ShutdownTick ==
    /\ exitCode = None
    /\ timers = {} => stime < MaxQuietSteps * ShutdownStep
    /\ \A deadline \in timers : stime < deadline
    /\ stime' = stime + ShutdownStep
    /\ UNCHANGED <<hvars, rvars, avars, evars, lvars, mvars,
                   signalledAt, clients, httpServer, timers, exitCode>>

ShutdownNext ==
    \/ \E c \in ClientIds : ClientConnect(c)
    \/ \E c \in ClientIds : ClientGone(c)
    \/ \E sig \in Signals : Shutdown(sig)
    \/ ServerClosed
    \/ \E deadline \in timers : TimeoutFires(deadline)
    \/ ShutdownTick

ShutdownSpec == ShutdownInit /\ [][ShutdownNext]_vars

\* the event loop runs a due timer, and time passes
ShutdownFairSpec ==
    /\ ShutdownSpec
    /\ WF_vars(ShutdownTick)
    /\ WF_vars(\E deadline \in timers : TimeoutFires(deadline))

----------------------------------------------------------------------------
(* The model-alias configuration (cliproxy/sync/model-alias-config.ts).     *)
(* An alias list is a sequence of { from, to }; the aliases object maps     *)
(* profile names to alias lists.                                            *)

Alias(from, to) == [from |-> from, to |-> to]

\* lines 29-45
DEFAULT_MODEL_ALIASES ==
    [glm |-> << Alias("claude-sonnet-4-20250514", "glm-4.7-thinking"),
                Alias("claude-3-5-sonnet-20241022", "glm-4.7"),
                Alias("claude-3-5-haiku-20241022", "glm-4.7-flash") >>,
     kimi |-> << Alias("claude-sonnet-4-20250514", "moonshot-v1-auto"),
                 Alias("claude-3-5-sonnet-20241022", "moonshot-v1-128k"),
                 Alias("claude-3-5-haiku-20241022", "moonshot-v1-32k") >>,
     qwen |-> << Alias("claude-sonnet-4-20250514", "qwen-coder-plus"),
                 Alias("claude-3-5-sonnet-20241022", "qwen-plus"),
                 Alias("claude-3-5-haiku-20241022", "qwen-turbo") >>]

\* s.trim(), for strings whose white space is the space character
RECURSIVE Trim(_)
Trim(s) ==
    IF Len(s) > 0 /\ SubSeq(s, 1, 1) = " " THEN Trim(SubSeq(s, 2, Len(s)))
    ELSE IF EndsWith(s, " ") THEN Trim(SubSeq(s, 1, Len(s) - 1))
    ELSE s

\* lines 114, 117: !s || s.trim() === ''
EmptyModelName(s) == s = "" \/ Trim(s) = ""

\* line 128: findIndex((a) => a.from === from), 0 standing for -1
FindIndex(list, from) ==
    IF \E i \in 1..Len(list) : list[i].from = from
    THEN CHOOSE i \in 1..Len(list) :
            /\ list[i].from = from
            /\ \A j \in 1..(i - 1) : list[j].from # from
    ELSE 0

\* an addition that always appends
PutAliasAppended(list, from, to) == Append(list, Alias(from, to))

\* lines 128-133: the target of an existing alias is replaced where it
\* stands, a new alias is pushed at the end
PutAlias(list, from, to) ==
    LET existingIdx == FindIndex(list, from)
    IN  IF existingIdx > 0
        THEN [list EXCEPT ![existingIdx] = Alias(from, to)]
        ELSE Append(list, Alias(from, to))

\* line 152: filter((a) => a.from !== from)
FilterOut(list, from) ==
    LET Keeps(a) == a.from # from IN SelectSeq(list, Keeps)

\* lines 58-76: the parsed file, or, when the file is missing or does not
\* parse, a shallow copy of the defaults, whose lists are the very arrays
\* of DEFAULT_MODEL_ALIASES
loadModelAliases(file, defaults) ==
    IF file.kind = "json"
    THEN [aliases |-> file.aliases, shared |-> {}]
    ELSE [aliases |-> defaults, shared |-> DOMAIN defaults]

\* config.aliases[profileName]: the own list, an inherited member of the
\* object, or undefined
AliasesGet(aliases, profileName) ==
    IF profileName \in DOMAIN aliases THEN Some(aliases[profileName])
    ELSE IF profileName \in ObjectPrototypeKeys THEN Some(Inherited(profileName))
    ELSE None

\* the value found is a member every object inherits, not a list
InheritedFound(aliases, profileName) ==
    profileName \notin DOMAIN aliases /\ profileName \in ObjectPrototypeKeys

\* aliases[profileName] = list
AliasesSet(aliases, profileName, list) ==
    [k \in DOMAIN aliases \cup {profileName} |->
        IF k = profileName THEN list ELSE aliases[k]]

\* delete aliases[profileName]
AliasesDelete(aliases, profileName) ==
    [k \in DOMAIN aliases \ {profileName} |-> aliases[k]]

\* lines 82-99: what writing the file can do
SaveOutcomes == {"saved", "fails"}

AliasThrew(file, defaults) ==
    [threw |-> TRUE, wrote |-> FALSE, result |-> None,
     file |-> file, defaults |-> defaults]
AliasReturned(result, wrote, file, defaults) ==
    [threw |-> FALSE, wrote |-> wrote, result |-> result,
     file |-> file, defaults |-> defaults]

\* lines 112-139
addProfileAlias(file, defaults, profileName, from, to, save) ==
    IF EmptyModelName(from) \/ EmptyModelName(to)
    THEN AliasThrew(file, defaults)
    ELSE
    LET config == loadModelAliases(file, defaults)
        found == AliasesGet(config.aliases, profileName)
    IN  IF InheritedFound(config.aliases, profileName)
        THEN \* line 128: findIndex is not a function
             AliasThrew(file, defaults)
        ELSE
        LET list == IF found = None THEN <<>> ELSE Val(found)
            put == PutAlias(list, from, to)
            \* lines 130, 132 change the array in place: when it is one of
            \* the arrays of DEFAULT_MODEL_ALIASES, that object changes too
            defaults2 == IF found # None /\ profileName \in config.shared
                         THEN [defaults EXCEPT ![profileName] = put]
                         ELSE defaults
            aliases2 == AliasesSet(config.aliases, profileName, put)
        IN  IF save = "saved"
            THEN AliasReturned(None, TRUE,
                               [kind |-> "json", aliases |-> aliases2],
                               defaults2)
            ELSE AliasThrew(file, defaults2)

\* lines 144-168
removeProfileAlias(file, defaults, profileName, from, save) ==
    LET config == loadModelAliases(file, defaults)
        found == AliasesGet(config.aliases, profileName)
    IN  IF found = None
        THEN AliasReturned(Some(FALSE), FALSE, file, defaults)
        ELSE IF InheritedFound(config.aliases, profileName)
        THEN \* line 152: filter is not a function
             AliasThrew(file, defaults)
        ELSE
        LET filtered == FilterOut(Val(found), from)
            aliases2 == IF Len(filtered) = 0
                        THEN AliasesDelete(config.aliases, profileName)
                        ELSE AliasesSet(config.aliases, profileName, filtered)
        IN  IF Len(filtered) = Len(Val(found))
            THEN AliasReturned(Some(FALSE), FALSE, file, defaults)
            ELSE IF save = "saved"
            THEN AliasReturned(Some(TRUE), TRUE,
                               [kind |-> "json", aliases |-> aliases2],
                               defaults)
            ELSE AliasThrew(file, defaults)

\* the arguments of the calls
AliasProfileNames == {"glm", "mine", "constructor"}
AliasFromNames == {"", " ", "claude-sonnet-4-20250514", "claude-x"}
AliasToNames == {"", "glm-4.7"}

\* the files the calls start from: none, one that does not parse, and
\* configurations in which no list names a model twice
AliasFiles ==
    { [kind |-> "missing"], [kind |-> "garbage"],
      [kind |-> "json", aliases |-> <<>>],
      [kind |-> "json", aliases |-> DEFAULT_MODEL_ALIASES],
      [kind |-> "json",
       aliases |-> [glm |-> << Alias("claude-x", "glm-4.7") >>,
                    mine |-> << Alias("claude-x", "glm-5"),
                                Alias("claude-sonnet-4-20250514", "glm-5") >>]],
      [kind |-> "json",
       aliases |-> [glm |-> << >>,
                    mine |-> << Alias("claude-x", "glm-5") >>]] }

AliasInit ==
    /\ RouterIdle
    /\ LocalAuthIdle
    /\ ShutdownIdle
    /\ aliasFile \in AliasFiles
    /\ defaultAliases = DEFAULT_MODEL_ALIASES
    /\ mret = NoRet

\* a call of addProfileAlias(profileName, from, to)
AddProfileAlias(profileName, from, to) ==
    /\ \E save \in SaveOutcomes :
          LET out == addProfileAlias(aliasFile, defaultAliases,
                                     profileName, from, to, save)
          IN  /\ aliasFile' = out.file
              /\ defaultAliases' = out.defaults
              /\ mret' = [op |-> "add", profileName |-> profileName,
                          from |-> from, to |-> to, threw |-> out.threw,
                          wrote |-> out.wrote, result |-> out.result]
    /\ UNCHANGED <<hvars, rvars, avars, evars, lvars, svars>>

\* a call of removeProfileAlias(profileName, from)
RemoveProfileAlias(profileName, from) ==
    /\ \E save \in SaveOutcomes :
          LET out == removeProfileAlias(aliasFile, defaultAliases,
                                        profileName, from, save)
          IN  /\ aliasFile' = out.file
              /\ defaultAliases' = out.defaults
              /\ mret' = [op |-> "remove", profileName |-> profileName,
                          from |-> from, threw |-> out.threw,
                          wrote |-> out.wrote, result |-> out.result]
    /\ UNCHANGED <<hvars, rvars, avars, evars, lvars, svars>>

AliasNext ==
    \/ \E profileName \in AliasProfileNames, from \in AliasFromNames,
          to \in AliasToNames : AddProfileAlias(profileName, from, to)
    \/ \E profileName \in AliasProfileNames, from \in AliasFromNames :
          RemoveProfileAlias(profileName, from)

AliasSpec == AliasInit /\ [][AliasNext]_vars

----------------------------------------------------------------------------
(* Properties of the health monitor.                                        *)

\* the task a call of checkProviderHealth(p) made in this step, if it made one
StartedTask(p) ==
    { t \in TaskIds : tasks[t].pc = "idle" /\ tasks'[t].pc # "idle"
                      /\ tasks'[t].provider = p }

\* a record is well formed: an unhealthy one carries a non-empty error string
Populated(r) == r.healthy \/ ("error" \in DOMAIN r /\ Len(r.error) > 0)

\* C1: checkProviderHealth returns the cached record, unchanged and without
\* starting any probe, auth query or request, exactly when a record for the
\* name exists and is less than 30 seconds old; otherwise it starts a live
\* check and what it later returns is the record that check built.
C1_HitIffYoungerThanTtl ==
    [][ /\ \A p \in providers : CheckProviderHealth(p) =>
             IF /\ p.name \in DOMAIN healthCache
                /\ now - healthCache[p.name].checkedAt < 30000
             THEN /\ ret' = [op |-> "check", hit |-> TRUE,
                             record |-> healthCache[p.name]]
                  /\ tasks' = tasks
             ELSE /\ ret'.op = "none"
                  /\ \E t \in StartedTask(p) :
                        /\ tasks'[t].pc \in {"probe", "fetch", "store"}
                        /\ tasks'[t].startTime = now
        /\ \A t \in TaskIds : (StoreAndReturn(t) /\ tasks[t].group = 0) =>
             /\ ret' = [op |-> "check", hit |-> FALSE,
                        record |-> Val(tasks[t].result)]
             /\ ret'.record.checkedAt >= tasks[t].startTime
             /\ ret'.record.provider = tasks[t].provider.name
      ]_vars

\* a cached record, one millisecond old, was returned as a hit
C1_Witness ==
    /\ ret.op = "check"
    /\ ret.hit
    /\ now - ret.record.checkedAt = 1

\* C2: when invalidateHealthCache() returns, no record is cached and the
\* port status is empty; a check made then starts a live check, and for a
\* cliproxy provider that check probes the port.
C2_InvalidateAllClears ==
    /\ [](ret = [op |-> "invalidate", arg |-> None] =>
            /\ healthCache = EmptyCache
            /\ cliproxyPortHealthy = None
            /\ cliproxyPortCheckedAt = None)
    /\ [][ ret = [op |-> "invalidate", arg |-> None] =>
             \A p \in providers : CheckProviderHealth(p) =>
                 /\ ret'.op = "none"
                 /\ \E t \in StartedTask(p) :
                       tasks'[t].pc = IF p.type = "cliproxy" THEN "probe" ELSE "fetch"
         ]_vars

\* invalidateHealthCache() has just returned, after a check had completed
\* and while no check is in flight
C2_Witness ==
    /\ ret = [op |-> "invalidate", arg |-> None]
    /\ nChecks = 1
    /\ \A t \in TaskIds : tasks[t].pc = "idle"

\* C3: invalidateHealthCache(name) with a name string removes at most that
\* name's record: the other records and the port status are as before, and
\* nothing changes when the name has no record.
C3_InvalidateNameFrame ==
    [][ (ret'.op = "invalidate" /\ ret'.arg # None) =>
            /\ cliproxyPortHealthy' = cliproxyPortHealthy
            /\ cliproxyPortCheckedAt' = cliproxyPortCheckedAt
            /\ \A n \in DOMAIN healthCache \ {Val(ret'.arg)} :
                  n \in DOMAIN healthCache' /\ healthCache'[n] = healthCache[n]
            /\ Val(ret'.arg) \notin DOMAIN healthCache => healthCache' = healthCache
      ]_vars

\* invalidateHealthCache("") has returned with one check done, none in
\* flight, nothing cached and no port status
C3_Witness ==
    /\ ret = [op |-> "invalidate", arg |-> Some("")]
    /\ nChecks = 1
    /\ \A t \in TaskIds : tasks[t].pc = "idle"
    /\ \A p \in providers : p.type = "cliproxy"
    /\ healthCache = EmptyCache
    /\ cliproxyPortHealthy = None

\* every record a check has built, stored or returned
RecordsAbout ==
    { healthCache[n] : n \in DOMAIN healthCache }
    \cup { Val(tasks[t].result) : t \in { u \in TaskIds : tasks[u].pc = "store" } }
    \cup (IF ret.op = "check" THEN {ret.record} ELSE {})
    \cup (IF ret.op = "checkAll"
          THEN { ret.records[i] : i \in 1..Len(ret.records) } ELSE {})

\* C4: whatever the port probe, the auth status and the request give, a
\* check goes on to build, store and return a record, and a record with
\* healthy = false carries a non-empty error string.
C4_FailureIsARecord ==
    /\ [](\A r \in RecordsAbout : Populated(r))
    /\ [][ /\ \A t \in TaskIds, o \in PortProbeOutcomes, a \in AuthStatuses :
                ProbeDone(t, o, a) =>
                    tasks'[t].pc = "store" /\ tasks'[t].result # None
           /\ \A t \in TaskIds, o \in FetchOutcomes :
                FetchDone(t, o) =>
                    tasks'[t].pc = "store" /\ tasks'[t].result # None
           /\ \A t \in TaskIds : (StoreAndReturn(t) /\ tasks[t].group = 0) =>
                    ret'.op = "check" /\ ret'.record = Val(tasks[t].result)
         ]_vars

\* a check whose request was rejected returned an unhealthy record
C4_Witness ==
    /\ ret.op = "check"
    /\ ~ret.hit
    /\ ~ret.record.healthy
    /\ ret.record.error = "fetch failed"

\* the verdict a cliproxy record must carry for a port check and an auth status
C5_Verdict(r, portPasses, authenticated) ==
    /\ r.healthy <=> (portPasses /\ authenticated)
    /\ ~portPasses => r.error = "CLIProxy not running"
    /\ (~r.healthy /\ r.error = "Not authenticated")
          <=> (portPasses /\ ~authenticated)

\* C5: a live check of a cliproxy provider is healthy exactly when the port
\* check passes and the provider is authenticated; when the port check
\* fails the error is 'CLIProxy not running' whatever the auth status, and
\* 'Not authenticated' is the error only when the port check passes and the
\* auth check fails.  The port check is the probe the check made or, when
\* the port status is reused, that status.
C5_HealthyIffPortAndAuth ==
    [][ /\ \A t \in TaskIds, o \in PortProbeOutcomes, a \in AuthStatuses :
             ProbeDone(t, o, a) =>
                 C5_Verdict(Val(tasks'[t].result), o = "cliproxy", a)
        /\ \A p \in providers, a \in AuthStatuses, t \in TaskIds :
             ( /\ CheckProviderHealth(p)
               /\ StartKind(p) = "store"
               /\ t \in StartedTask(p)
               /\ tasks'[t] = NewTask(p, 0, 0, a) ) =>
                 C5_Verdict(Val(tasks'[t].result), Val(cliproxyPortHealthy), a)
      ]_vars

\* a cliproxy provider was found running but not authenticated
C5_Witness ==
    /\ ret.op = "check"
    /\ ~ret.hit
    /\ ~ret.record.healthy
    /\ ret.record.error = "Not authenticated"

\* C6 as claimed: a settings or api provider is healthy exactly on a 2xx
\* response; a non-2xx response gives an error string containing the status
\* code and a latency greater than zero; a rejected request gives the
\* rejection's message.
C6_Original ==
    [][ \A t \in TaskIds, o \in FetchOutcomes : FetchDone(t, o) =>
          LET r == Val(tasks'[t].result)
          IN  /\ r.healthy <=> (o.kind = "response" /\ o.status \in 200..299)
              /\ (o.kind = "response" /\ o.status \notin 200..299) =>
                    /\ Contains(r.error, ToString(o.status))
                    /\ r.latency > 0
              /\ o.kind # "response" => r.error = o.message
      ]_vars

\* C6 as amended: the same, with the latency being the time elapsed between
\* the start of the check and the response, which is zero when the response
\* arrives within the same millisecond.
C6_ApiVerdict ==
    [][ \A t \in TaskIds, o \in FetchOutcomes : FetchDone(t, o) =>
          LET r == Val(tasks'[t].result)
          IN  /\ r.healthy <=> (o.kind = "response" /\ o.status \in 200..299)
              /\ (o.kind = "response" /\ o.status \notin 200..299) =>
                    /\ Contains(r.error, ToString(o.status))
                    /\ r.latency = now - tasks[t].startTime
                    /\ r.latency >= 0
              /\ o.kind # "response" => r.error = o.message
      ]_vars

\* a 500 response that arrived in the millisecond the check started
C6_Witness ==
    \E t \in TaskIds :
        /\ tasks[t].pc = "store"
        /\ tasks[t].provider.type = "settings"
        /\ ~Val(tasks[t].result).healthy
        /\ Contains(Val(tasks[t].result).error, "500")
        /\ Val(tasks[t].result).latency = 0

\* C8 as claimed: a live cliproxy check reuses the port status only when it
\* is less than 30 seconds old, and probes the port when there is no status
\* or it is 30 seconds old or older.
C8_PortStatusTtl ==
    [][ \A p \in providers :
          ( /\ CheckProviderHealth(p)
            /\ p.type = "cliproxy"
            /\ ret'.op = "none" ) =>
              \E t \in StartedTask(p) :
                 (tasks'[t].pc = "store")
                    <=> ( /\ cliproxyPortCheckedAt # None
                          /\ now - Val(cliproxyPortCheckedAt) < 30000 )
      ]_vars

\* a live cliproxy check built its record without a probe from a port
\* status that was exactly 30 seconds old
C8_Witness ==
    \E t \in TaskIds :
        /\ tasks[t].pc = "store"
        /\ tasks[t].provider.type = "cliproxy"
        /\ cliproxyPortCheckedAt # None
        /\ tasks[t].startTime - Val(cliproxyPortCheckedAt) = 30000

\* the checks of the checkAll call in flight that handle index i
ChecksOfIndex(i) ==
    { t \in TaskIds : tasks[t].pc # "idle" /\ tasks[t].group = 1 /\ tasks[t].idx = i }

\* C7: checkAllProvidersHealth starts every provider's check before it
\* awaits any; each check puts its own record, built from its own probe or
\* request, in its own place and touches no other check; the call returns
\* one record per provider, in order, and it does return.
C7_CheckAllIsolation ==
    /\ [](call # None =>
            \A i \in 1..Len(Val(call).providers) :
                IF Val(call).results[i] # None
                THEN /\ Val(Val(call).results[i]).provider = Val(call).providers[i].name
                     /\ ChecksOfIndex(i) = {}
                ELSE /\ Cardinality(ChecksOfIndex(i)) = 1
                     /\ \A t \in ChecksOfIndex(i) :
                           tasks[t].provider = Val(call).providers[i])
    /\ [](ret.op = "checkAll" =>
            /\ Len(ret.records) = Len(ret.providers)
            /\ \A i \in 1..Len(ret.providers) :
                  ret.records[i].provider = ret.providers[i].name)
    /\ [][ /\ \A t \in TaskIds : StoreAndReturn(t) =>
                /\ Val(call').results[tasks[t].idx] = tasks[t].result
                /\ \A i \in 1..Len(Val(call).providers) \ {tasks[t].idx} :
                      Val(call').results[i] = Val(call).results[i]
                /\ \A u \in TaskIds \ {t} : tasks'[u] = tasks[u]
           /\ \A t \in TaskIds, o \in PortProbeOutcomes, a \in AuthStatuses :
                ProbeDone(t, o, a) =>
                    /\ Val(tasks'[t].result).healthy <=> (o = "cliproxy" /\ a)
                    /\ \A u \in TaskIds \ {t} : tasks'[u] = tasks[u]
                    /\ call' = call
           /\ \A t \in TaskIds, o \in FetchOutcomes :
                FetchDone(t, o) =>
                    /\ Val(tasks'[t].result).healthy
                          <=> (o.kind = "response" /\ o.status \in 200..299)
                    /\ \A u \in TaskIds \ {t} : tasks'[u] = tasks[u]
                    /\ call' = call
         ]_vars
    /\ (call # None) ~> (ret.op = "checkAll")

\* a call for two providers returned a healthy record and an unhealthy one
C7_Witness ==
    /\ ret.op = "checkAll"
    /\ Len(ret.records) = 2
    /\ ret.records[1].healthy
    /\ ~ret.records[2].healthy

----------------------------------------------------------------------------
(* Properties of the resolver.                                              *)

\* C9 as claimed: for a name that is no built-in identifier, no key of the
\* profiles map and no key of the providers map, getProvider returns null
\* and does not throw, whatever the configuration.
C9_UnknownNameIsNull ==
    ( /\ rret.op = "getProvider"
      /\ ~isCLIProxyProvider(rret.name)
      /\ rret.name \notin ProfileKeys
      /\ rret.name \notin ProviderKeys )
    => rret.result = Return(None)

\* getProvider("constructor") returned a descriptor although neither map
\* has that key
C9_Witness ==
    /\ rret.op = "getProvider"
    /\ rret.name = "constructor"
    /\ rret.name \notin ProfileKeys \cup ProviderKeys
    /\ rret.result.kind = "return"
    /\ rret.result.value # None

\* C10 as claimed: a built-in identifier resolves to a cliproxy provider
\* even when it is a key of the profiles or providers map, and a name that
\* is a key of both maps never resolves to an api provider.
C10_FirstMatchWins ==
    rret.op = "getProvider" =>
        /\ isCLIProxyProvider(rret.name) =>
              rret.result = Return(Some(resolveCLIProxyProvider(rret.name)))
        /\ ( /\ ~isCLIProxyProvider(rret.name)
             /\ rret.name \in ProfileKeys
             /\ rret.name \in ProviderKeys )
           => ~( /\ rret.result.kind = "return"
                 /\ rret.result.value # None
                 /\ Val(rret.result.value).type = "api" )

\* the settings file of a profile name, as the file system has it
SettingsFileOf(name) == settingsFiles[SettingsPath(name)]

\* C11 as claimed: when the name is a key of the profiles map and its
\* settings file is missing or is not JSON, getProvider returns null, also
\* when the providers map has an entry for the name.
C11_NoFallThrough ==
    ( /\ rret.op = "getProvider"
      /\ ~isCLIProxyProvider(rret.name)
      /\ rret.name \in ProfileKeys
      /\ SettingsFileOf(rret.name).state \in {"missing", "garbage"} )
    => rret.result = Return(None)

\* a profile name whose settings file is not JSON resolved to the entry the
\* providers map has for it
C11_Witness ==
    /\ rret.op = "getProvider"
    /\ rret.name \in ProfileKeys \cap ProviderKeys
    /\ SettingsFileOf(rret.name).state = "garbage"
    /\ rret.result.kind = "return"
    /\ rret.result.value # None

\* the result is a descriptor
IsDescriptor(res) == res.kind = "return" /\ res.value # None

C13_BuiltinDescriptor ==
    /\ \A n \in {"agy", "gemini", "codex", "qwen", "iflow", "kiro", "ghcp"},
          xp \in ExpandUndefinedOutcomes :
          /\ IsDescriptor(getProvider(n, xp))
          /\ LET d == Val(getProvider(n, xp).value)
             IN  /\ d.name = n
                 /\ d.type = "cliproxy"
                 /\ d.adapter = Some("anthropic")
                 /\ d.baseUrl = Some("http://127.0.0.1:8317/api/provider/" \o n \o "/v1")
                 /\ d.authToken = None
    /\ (rret.op = "getProvider" /\ rret.name = "agy") =>
          /\ IsDescriptor(rret.result)
          /\ Val(rret.result.value).type = "cliproxy"
          /\ Val(rret.result.value).baseUrl
                = Some("http://127.0.0.1:8317/api/provider/agy/v1")
          /\ Val(rret.result.value).authToken = None

\* "agy" was resolved while both maps have an entry named agy and agy's
\* settings file holds a base URL and a token
C13_Witness ==
    /\ rret.op = "getProvider"
    /\ rret.name = "agy"
    /\ "agy" \in ProfileKeys \cap ProviderKeys
    /\ SettingsFileOf("agy").state = "json"
    /\ SettingsFileOf("agy").env # None
    /\ TruthyString(Val(SettingsFileOf("agy").env).ANTHROPIC_AUTH_TOKEN)
    /\ IsDescriptor(rret.result)

\* the env object of a settings file that holds a JSON object
EnvOf(file) ==
    IF file.env = None
    THEN [ANTHROPIC_BASE_URL |-> None, ANTHROPIC_AUTH_TOKEN |-> None]
    ELSE Val(file.env)

\* C14 as claimed: a profile name whose settings file is readable and
\* parses resolves to a settings descriptor whose baseUrl is the file's
\* env.ANTHROPIC_BASE_URL, or the default when that field is absent, and
\* whose authToken is env.ANTHROPIC_AUTH_TOKEN, undefined when absent.
C14_Original ==
    ( /\ rret.op = "getProvider"
      /\ ~isCLIProxyProvider(rret.name)
      /\ rret.name \in ProfileKeys
      /\ SettingsFileOf(rret.name).state \in {"json", "null"} )
    => /\ IsDescriptor(rret.result)
       /\ Val(rret.result.value).type = "settings"
       /\ SettingsFileOf(rret.name).state = "json"
       /\ LET env == EnvOf(SettingsFileOf(rret.name))
          IN  /\ Val(rret.result.value).baseUrl =
                    IF env.ANTHROPIC_BASE_URL = None
                    THEN Some("https://api.anthropic.com/v1")
                    ELSE env.ANTHROPIC_BASE_URL
              /\ Val(rret.result.value).authToken = env.ANTHROPIC_AUTH_TOKEN

\* C14 as amended: a profile name whose settings file holds a JSON object
\* resolves to a settings descriptor whose baseUrl is the file's
\* env.ANTHROPIC_BASE_URL when that is a non-empty string and the default
\* when it is absent or empty, and whose authToken is
\* env.ANTHROPIC_AUTH_TOKEN, undefined when absent.
C14_SettingsDescriptor ==
    ( /\ rret.op = "getProvider"
      /\ ~isCLIProxyProvider(rret.name)
      /\ rret.name \in ProfileKeys
      /\ SettingsFileOf(rret.name).state = "json" )
    => /\ IsDescriptor(rret.result)
       /\ Val(rret.result.value).type = "settings"
       /\ Val(rret.result.value).adapter = Some("anthropic")
       /\ LET env == EnvOf(SettingsFileOf(rret.name))
          IN  /\ Val(rret.result.value).baseUrl =
                    IF env.ANTHROPIC_BASE_URL \in {None, Some("")}
                    THEN Some("https://api.anthropic.com/v1")
                    ELSE env.ANTHROPIC_BASE_URL
              /\ Val(rret.result.value).authToken = env.ANTHROPIC_AUTH_TOKEN

\* "glm" was resolved from a settings file that names a base URL and a token
C14_Witness ==
    /\ rret.op = "getProvider"
    /\ rret.name = "glm"
    /\ IsDescriptor(rret.result)
    /\ Val(rret.result.value).type = "settings"
    /\ Val(rret.result.value).baseUrl = Some("https://api.z.ai/api/anthropic")
    /\ Val(rret.result.value).authToken = Some("tok123")

\* the list has an entry of the type for the name
Lists(list, type, name) ==
    \E i \in 1..Len(list) : list[i].type = type /\ list[i].name = name

\* C15 as claimed: getAllProviders() does not throw, lists every profile
\* name whose settings file exists, omits profile names only when their
\* settings file is missing, and lists every built-in identifier and every
\* key of the providers map whatever it omits.
C15_OmitsOnlyMissing ==
    rret.op = "getAllProviders" =>
        /\ rret.result.kind = "return"
        /\ \A n \in ProfileKeys :
              Lists(rret.result.value, "settings", n)
                 <=> SettingsFileOf(n).state # "missing"
        /\ \A i \in 1..Len(CLIPROXY_PROVIDER_LIST) :
              Lists(rret.result.value, "cliproxy", CLIPROXY_PROVIDER_LIST[i])
        /\ \A n \in ProviderKeys : Lists(rret.result.value, "api", n)

\* getAllProviders() returned a list without glm although glm is a profile
\* whose settings file exists (and is not JSON)
C15_Witness ==
    /\ rret.op = "getAllProviders"
    /\ rret.result.kind = "return"
    /\ "glm" \in ProfileKeys
    /\ SettingsFileOf("glm").state = "garbage"
    /\ ~Lists(rret.result.value, "settings", "glm")

\* a name that is a key of both maps resolved to an api provider
C10_Witness ==
    /\ rret.op = "getProvider"
    /\ rret.name \in ProfileKeys \cap ProviderKeys
    /\ rret.result.kind = "return"
    /\ rret.result.value # None
    /\ Val(rret.result.value).type = "api"

----------------------------------------------------------------------------
(* Properties of the adapter.                                               *)

\* C16: transformRequest returns a request whose model is targetModel and
\* whose other fields are those of the request it was given, with their
\* values; the request it was given is as it was; and the result is the
\* same for every provider.
C16_OnlyModelChanges ==
    /\ [](aret.op = "transformRequest" =>
            /\ DOMAIN aret.result = DOMAIN areq \cup {"model"}
            /\ aret.result["model"] = aret.targetModel
            /\ \A k \in DOMAIN areq \ {"model"} : aret.result[k] = areq[k]
            /\ \A p \in AdapterProviders :
                  transformRequest(areq, aret.targetModel, p) = aret.result)
    /\ [][aret'.op = "transformRequest" => areq' = areq]_vars

\* a request that names a model was given another model
C16_Witness ==
    /\ aret.op = "transformRequest"
    /\ "model" \in DOMAIN areq
    /\ "messages" \in DOMAIN areq
    /\ areq["model"] # aret.targetModel
    /\ aret.result["model"] = "glm-4.6"

\* the custom headers of the provider, an empty object when it has none
CustomOf(provider) ==
    IF provider.headers = None THEN <<>> ELSE Val(provider.headers)

\* C17 as claimed: the headers hold Content-Type: application/json unless
\* the custom headers name a Content-Type; they hold an Authorization entry
\* exactly when authToken is set or the custom headers name one, and it is
\* 'Bearer <token>' unless the custom headers name one; and every key of
\* the custom headers has the custom value.
C17_Original ==
    aret.op = "getHeaders" =>
        LET h == aret.result
            custom == CustomOf(aprov)
        IN  /\ "Content-Type" \in DOMAIN h
            /\ "Content-Type" \notin DOMAIN custom
                  => h["Content-Type"] = "application/json"
            /\ "Authorization" \in DOMAIN h
                  <=> (aprov.authToken # None \/ "Authorization" \in DOMAIN custom)
            /\ (aprov.authToken # None /\ "Authorization" \notin DOMAIN custom)
                  => h["Authorization"] = "Bearer " \o Val(aprov.authToken)
            /\ \A k \in DOMAIN custom : h[k] = custom[k]

\* C17 as amended: the same, with the Authorization entry present exactly
\* when authToken is a non-empty string or the custom headers name one; an
\* authToken that is the empty string gives no Authorization entry.
C17_Headers ==
    aret.op = "getHeaders" =>
        LET h == aret.result
            custom == CustomOf(aprov)
            hasToken == aprov.authToken # None /\ Val(aprov.authToken) # ""
        IN  /\ DOMAIN h = {"Content-Type"} \cup DOMAIN custom
                           \cup (IF hasToken THEN {"Authorization"} ELSE {})
            /\ "Content-Type" \notin DOMAIN custom
                  => h["Content-Type"] = "application/json"
            /\ (hasToken /\ "Authorization" \notin DOMAIN custom)
                  => h["Authorization"] = "Bearer " \o Val(aprov.authToken)
            /\ \A k \in DOMAIN custom : h[k] = custom[k]

\* the custom headers replaced both built-in entries of a provider that has
\* a token
C17_Witness ==
    /\ aret.op = "getHeaders"
    /\ aprov.authToken = Some("tok123")
    /\ aret.result["Authorization"] = "Basic dXNlcg=="
    /\ aret.result["Content-Type"] = "text/plain"

\* C18: getEndpoint returns the base URL without its trailing slashes,
\* followed by /messages when that ends in /v1 and by /v1/messages
\* otherwise; the result ends in /v1/messages, the segment /v1 is not
\* appended to a base URL that ends in it, and a base URL with one more
\* trailing slash gives the same endpoint.
C18_Endpoint ==
    aret.op = "getEndpoint" =>
        LET b == Val(aprov.baseUrl)
            n == CHOOSE i \in 0..Len(b) :
                    /\ \A j \in (i + 1)..Len(b) : SubSeq(b, j, j) = "/"
                    /\ i > 0 => SubSeq(b, i, i) # "/"
            stripped == SubSeq(b, 1, n)
        IN  /\ aret.result = stripped \o
                    (IF EndsWith(stripped, "/v1") THEN "/messages" ELSE "/v1/messages")
            /\ EndsWith(aret.result, "/v1/messages")
            /\ EndsWith(stripped, "/v1") => ~EndsWith(aret.result, "/v1/v1/messages")
            /\ getEndpoint([aprov EXCEPT !.baseUrl = Some(b \o "/")]) = aret.result
            /\ getEndpoint([aprov EXCEPT !.baseUrl = Some(stripped)]) = aret.result

\* a base URL that ends in /v1 and three slashes
C18_Witness ==
    /\ aret.op = "getEndpoint"
    /\ aprov.baseUrl = Some("https://api.example.com/v1///")
    /\ aret.result = "https://api.example.com/v1/messages"

----------------------------------------------------------------------------
(* Properties of the configuration editor.                                  *)

\* the entries under router.profiles of a file, none when the file, the
\* router section or the profiles section is missing
EntriesOf(file) ==
    IF file = None THEN <<>>
    ELSE IF Val(file).router.kind # "map" THEN <<>>
    ELSE IF Val(file).router.profiles = None THEN <<>>
    ELSE Val(Val(file).router.profiles)

\* the defaults section of a file
DefaultsOf(file) ==
    IF file = None THEN None
    ELSE IF Val(file).router.kind # "map" THEN None
    ELSE Val(file).router.defaults

\* C19 as claimed: saveRouterProfile(name, profile) on an existing file
\* returns, and afterwards the file holds profile under router.profiles at
\* name while every other profile entry, the defaults, the other top-level
\* sections and the hand-written comments are as they were.
C19_SaveFrame ==
    [][ \A name \in EditorNames, profile \in ProfileData :
          (SaveRouterProfile(name, profile) /\ configFile # None) =>
              /\ ~eret'.threw
              /\ configFile' # None
              /\ name \in DOMAIN EntriesOf(configFile')
              /\ EntriesOf(configFile')[name] = profile
              /\ \A n \in DOMAIN EntriesOf(configFile) \ {name} :
                    /\ n \in DOMAIN EntriesOf(configFile')
                    /\ EntriesOf(configFile')[n] = EntriesOf(configFile)[n]
              /\ DefaultsOf(configFile') = DefaultsOf(configFile)
              /\ Val(configFile').other = Val(configFile).other
              /\ Val(configFile').comment = Val(configFile).comment
      ]_vars

\* saveRouterProfile("glm", ...) returned and left a file with a comment,
\* another section and defaults whose only profile is glm
C19_Witness ==
    /\ eret.op = "save"
    /\ eret.name = "glm"
    /\ ~eret.threw
    /\ eret.wrote
    /\ configFile # None
    /\ Val(configFile).comment
    /\ Val(configFile).other
    /\ DefaultsOf(configFile) # None
    /\ DOMAIN EntriesOf(configFile) = {"glm"}

\* C20 as claimed: deleteRouterProfile(name) for a name without an entry
\* under router.profiles, also when the file, the router section or the
\* profiles section is missing, returns false and writes nothing: the file
\* is as it was.
C20_DeleteAbsent ==
    [][ \A name \in EditorNames :
          (DeleteRouterProfile(name) /\ name \notin DOMAIN EntriesOf(configFile)) =>
              /\ ~eret'.threw
              /\ eret'.result = FALSE
              /\ ~eret'.wrote
              /\ configFile' = configFile
      ]_vars

\* deleteRouterProfile("constructor") returned true and rewrote a
\* hand-formatted file
C20_Witness ==
    /\ eret.op = "delete"
    /\ eret.name = "constructor"
    /\ eret.result
    /\ eret.wrote
    /\ configFile # None
    /\ "constructor" \notin DOMAIN EntriesOf(configFile)

\* the keys and values of the defaults section of a file, none when there
\* is no such section
DefaultEntriesOf(file) ==
    IF DefaultsOf(file) = None THEN <<>> ELSE Val(DefaultsOf(file))

\* C21 as claimed: updateRouterDefaults(partial) returns, and afterwards
\* every key of the defaults that were stored and that partial does not
\* name has its value, every key of partial has partial's value, and the
\* profiles section is as it was.
C21_DefaultsMerge ==
    [][ \A partial \in PartialDefaults : UpdateRouterDefaults(partial) =>
          /\ ~eret'.threw
          /\ \A k \in DOMAIN DefaultEntriesOf(configFile) \ DOMAIN partial :
                /\ k \in DOMAIN DefaultEntriesOf(configFile')
                /\ DefaultEntriesOf(configFile')[k] = DefaultEntriesOf(configFile)[k]
          /\ \A k \in DOMAIN partial :
                /\ k \in DOMAIN DefaultEntriesOf(configFile')
                /\ DefaultEntriesOf(configFile')[k] = partial[k]
          /\ EntriesOf(configFile') = EntriesOf(configFile)
      ]_vars

\* updateRouterDefaults({fallback}) wrote defaults that hold the node's
\* properties and fallback, and no tier
C21_Witness ==
    /\ eret.op = "update"
    /\ eret.wrote
    /\ DOMAIN DefaultEntriesOf(configFile) = {"items", "range", "fallback"}
    /\ DOMAIN EntriesOf(configFile) = {"glm", "kimi"}

\* C24 as claimed: deleteRouterProfile(name) for a name with an entry under
\* router.profiles returns true, and afterwards the file has no entry for
\* the name while the other entries and the defaults are as they were.
C24_DeletePresent ==
    [][ \A name \in EditorNames :
          (DeleteRouterProfile(name) /\ name \in DOMAIN EntriesOf(configFile)) =>
              /\ eret'.result = TRUE
              /\ name \notin DOMAIN EntriesOf(configFile')
              /\ \A n \in DOMAIN EntriesOf(configFile) \ {name} :
                    /\ n \in DOMAIN EntriesOf(configFile')
                    /\ EntriesOf(configFile')[n] = EntriesOf(configFile)[n]
              /\ DefaultsOf(configFile') = DefaultsOf(configFile)
      ]_vars

\* deleteRouterProfile("glm") returned false and the file still holds glm
C24_Witness ==
    /\ eret.op = "delete"
    /\ eret.name = "glm"
    /\ eret.result = FALSE
    /\ "glm" \in DOMAIN EntriesOf(configFile)

\* a well-formed file: missing, or one whole document
WholeDocument(file) ==
    \/ file = None
    \/ /\ DOMAIN Val(file) = {"format", "comment", "other", "router"}
       /\ Val(file).router.kind \in {"absent", "null", "map"}

----------------------------------------------------------------------------
(* Properties of the local-auth decision.                                   *)

\* a token that counts as present
TokenPresent(token) == token.t = "string" /\ token.v # ""

\* C23: local authentication is skipped exactly when a remote proxy is in
\* use and its auth token is a non-empty string (undefined and '' count as
\* absent), and local OAuth is triggered exactly when the provider requires
\* OAuth and local authentication is not skipped.
C23_SkipLocalAuth ==
    /\ authOut.op \in {"flag", "oauth"} =>
          (Truthy(authOut.skipLocalAuth)
             <=> (authIn.useRemoteProxy.v /\ TokenPresent(authIn.authToken)))
    /\ authOut.op = "ci" =>
          /\ authOut.useRemoteProxy
                = JsBoolean(authIn.proxyHost.t = "string"
                            /\ authIn.proxyHost.v # "")
          /\ authOut.skipLocalAuth
                = JsBoolean(authOut.useRemoteProxy.v
                            /\ TokenPresent(authIn.authToken))
    /\ authOut.op = "oauth" =>
          authOut.shouldTriggerLocalOAuth
             = JsBoolean(authIn.providerRequiresOAuth.v
                         /\ ~Truthy(authOut.skipLocalAuth))

\* a remote proxy with an empty token: local authentication is not skipped
\* and the OAuth the provider requires is triggered
C23_Witness ==
    /\ authOut.op = "oauth"
    /\ authIn.useRemoteProxy.v
    /\ authIn.authToken = JsString("")
    /\ authIn.providerRequiresOAuth.v
    /\ authOut.shouldTriggerLocalOAuth = JsBoolean(TRUE)

----------------------------------------------------------------------------
(* Properties of the shutdown handler.                                      *)

\* C25: once SIGINT or SIGTERM is delivered the process eventually exits;
\* it exits with 0 when the HTTP server has finished closing and no timeout
\* has fired, and otherwise with 1 when the timeout of the first signal
\* fires, SHUTDOWN_TIMEOUT after that signal, a second signal changing
\* nothing of this; every signal sends a close to each client connected at
\* that moment, so no client is left open at the exit.
C25_SignalLeadsToExit ==
    /\ (signalledAt # <<>>) ~> (exitCode # None)
    /\ [][ \A sig \in Signals : Shutdown(sig) =>
              \A c \in ClientIds : clients[c] = "open" => clients'[c] = "closing"
         ]_vars
    /\ [](exitCode # None =>
              /\ signalledAt # <<>>
              /\ \A c \in ClientIds : clients[c] # "open")
    /\ [][ exitCode' # exitCode =>
              \/ /\ exitCode' = Some(0)
                 /\ httpServer' = "closed"
                 /\ stime <= signalledAt[1].at + SHUTDOWN_TIMEOUT
              \/ /\ exitCode' = Some(1)
                 /\ httpServer' # "closed"
                 /\ stime = signalledAt[1].at + SHUTDOWN_TIMEOUT
         ]_vars

\* a second signal arrived during the shutdown, a client never answered its
\* close frame, and the timeout ended the process with 1
C25_Witness ==
    /\ Len(signalledAt) = 2
    /\ signalledAt[2].at > signalledAt[1].at
    /\ \E c \in ClientIds : clients[c] = "closing"
    /\ exitCode = Some(1)

----------------------------------------------------------------------------
(* Properties of the model-alias configuration.                             *)

\* the aliases a load of the file gives
AliasesOf(file, defaults) == loadModelAliases(file, defaults).aliases

\* no two entries of the list have the same from
UniqueFrom(list) ==
    \A i, j \in 1..Len(list) : list[i].from = list[j].from => i = j

\* the list of a profile that has one, the empty list otherwise
ListOf(aliases, profileName) ==
    IF profileName \in DOMAIN aliases THEN aliases[profileName] ELSE <<>>

\* every list has one entry per from at most
C26_UniqueFromKept ==
    \A profileName \in DOMAIN AliasesOf(aliasFile, defaultAliases) :
        UniqueFrom(AliasesOf(aliasFile, defaultAliases)[profileName])

\* the list of the profile of the call that is returning, before the call
\* and after it
ListBefore == ListOf(AliasesOf(aliasFile, defaultAliases), mret'.profileName)
ListAfter == ListOf(AliasesOf(aliasFile', defaultAliases'), mret'.profileName)

\* the profile of the call that is returning has an alias with the call's from
HasFrom == \E i \in 1..Len(ListBefore) : ListBefore[i].from = mret'.from

\* an addProfileAlias that was saved replaced the target where the alias
\* stood
C26_AddInPlace ==
    [][ (mret'.op = "add" /\ mret'.wrote /\ HasFrom) =>
            /\ Len(ListAfter) = Len(ListBefore)
            /\ \A i \in 1..Len(ListBefore) :
                  ListAfter[i] = IF ListBefore[i].from = mret'.from
                                 THEN Alias(mret'.from, mret'.to)
                                 ELSE ListBefore[i]
      ]_vars

\* a removal that was saved leaves the profile without a list, or with a
\* list that is not empty
C26_NoEmptyListStored ==
    [][ (mret'.op = "remove" /\ mret'.wrote) =>
            /\ aliasFile'.kind = "json"
            /\ mret'.profileName \in DOMAIN aliasFile'.aliases
                  => Len(aliasFile'.aliases[mret'.profileName]) > 0
      ]_vars

\* C26: starting from a configuration without a repeated from, every list
\* keeps one entry per from at most; a removal stores no empty list for its
\* profile; addProfileAlias on an existing from replaces the target where it
\* stands; and removeProfileAlias returns false and writes nothing when the
\* profile has no alias with that from.
C26_AliasLists ==
    /\ []C26_UniqueFromKept
    /\ C26_AddInPlace
    /\ C26_NoEmptyListStored
    /\ [][ (mret'.op = "remove" /\ ~HasFrom) =>
              /\ ~mret'.threw
              /\ mret'.result = Some(FALSE)
              /\ ~mret'.wrote
              /\ aliasFile' = aliasFile
         ]_vars

\* removeProfileAlias("constructor", ...) threw on a configuration that has
\* no profile of that name
C26_Witness ==
    /\ mret.op = "remove"
    /\ mret.profileName = "constructor"
    /\ mret.threw
    /\ aliasFile.kind = "json"
    /\ "constructor" \notin DOMAIN aliasFile.aliases

----------------------------------------------------------------------------
(* Properties of the checks' history.                                       *)

\* the provider of that name is a multiplexer provider
IsMultiplexer(name) ==
    \E p \in providers : p.name = name /\ p.type = "cliproxy"

\* C27: a check that starts after an invalidate call covering its provider
\* has returned never returns, as a cache hit, a record derived from a probe
\* that began before that call, and never builds its record from a port
\* status written by a probe that began before that call.
C27_InvalidateNotUndone ==
    /\ [][ (ret'.op = "check" /\ ret'.hit) =>
              ret'.record.provider \notin trace.recOld ]_vars
    /\ [][ \A t \in TaskIds :
              (tasks[t].pc = "idle" /\ tasks'[t].pc = "store") =>
                  tasks'[t].provider.name \notin trace.portOld ]_vars

\* a call made after invalidate() returned is served the record of a check
\* that was suspended on its probe when invalidate() was called
C27_Witness ==
    /\ ret.op = "check"
    /\ ret.hit
    /\ ret.record.provider \in trace.recOld
    /\ cliproxyPortCheckedAt # None
    /\ AllNames \subseteq trace.portOld

\* C29: every record returned for a multiplexer provider, built by the call
\* or served from the cache, derives from a port probe made at most
\* CACHE_TTL before the return, and its checkedAt is at most CACHE_TTL after
\* that probe.
C29_ProbeAgeAtReturn ==
    /\ [][ (ret'.op = "check" /\ ret'.hit
            /\ IsMultiplexer(ret'.record.provider)) =>
              LET probeAt == Val(trace.recProbeAt[ret'.record.provider])
              IN  /\ now - probeAt <= CACHE_TTL
                  /\ ret'.record.checkedAt - probeAt <= CACHE_TTL ]_vars
    /\ [][ \A t \in TaskIds :
              (StoreAndReturn(t) /\ tasks[t].provider.type = "cliproxy") =>
                  LET probeAt == Val(trace.probeAt[t])
                  IN  /\ now - probeAt <= CACHE_TTL
                      /\ Val(tasks[t].result).checkedAt - probeAt <= CACHE_TTL
         ]_vars

\* a record served from the cache whose port probe is older than CACHE_TTL
C29_Witness ==
    /\ ret.op = "check"
    /\ ret.hit
    /\ IsMultiplexer(ret.record.provider)
    /\ now - Val(trace.recProbeAt[ret.record.provider]) > CACHE_TTL
    /\ now - ret.record.checkedAt < CACHE_TTL

\* C28: no two port probes are in flight that began within CACHE_TTL of one
\* another: checks that overlap, those of one checkAll call among them,
\* share one probe of the port.
C28_OneProbePerWindow ==
    \A t1, t2 \in TaskIds :
        (t1 # t2 /\ tasks[t1].pc = "probe" /\ tasks[t2].pc = "probe") =>
            \/ tasks[t1].startTime - tasks[t2].startTime > CACHE_TTL
            \/ tasks[t2].startTime - tasks[t1].startTime > CACHE_TTL

\* one checkAll call over two multiplexer providers has two probes of the
\* port in flight
C28_Witness ==
    /\ call # None
    /\ Len(Val(call).providers) = 2
    /\ Val(call).providers[1] # Val(call).providers[2]
    /\ \A i \in 1..2 : Val(call).providers[i].type = "cliproxy"
    /\ \A t \in TaskIds : tasks[t].pc = "probe" /\ tasks[t].group = 1

----------------------------------------------------------------------------
(* The enumeration against single-name resolution.                          *)

\* C30: every descriptor of the list getAllProviders() returns is what
\* getProvider gives for its name, in kind, base URL and adapter kind, and
\* no name is listed with two kinds.
C30_ListAgreesWithResolve ==
    (rret.op = "getAllProviders" /\ rret.result.kind = "return") =>
        LET list == rret.result.value
        IN  /\ \A i \in 1..Len(list), xp \in ExpandUndefinedOutcomes :
                  LET single == getProvider(list[i].name, xp)
                  IN  /\ IsDescriptor(single)
                      /\ Val(single.value).type = list[i].type
                      /\ Val(single.value).baseUrl = list[i].baseUrl
                      /\ Val(single.value).adapter = list[i].adapter
            /\ \A i, j \in 1..Len(list) :
                  list[i].name = list[j].name => list[i].type = list[j].type

\* the list holds glm as a settings profile and as an api provider, and agy
\* as a built-in and as a settings profile
C30_Witness ==
    /\ rret.op = "getAllProviders"
    /\ rret.result.kind = "return"
    /\ Lists(rret.result.value, "settings", "glm")
    /\ Lists(rret.result.value, "api", "glm")
    /\ Lists(rret.result.value, "cliproxy", "agy")
    /\ Lists(rret.result.value, "settings", "agy")

====
